---- MODULE Spec2Model ----
(***************************************************************************)
(* A model of cpk-tool-rs: the CRILAYLA decompressor                       *)
(* (src/src/compression.rs) and the CPK archive reader and extractor       *)
(* (src/src/cpk.rs, with the cell conversions of src/src/utf.rs).          *)
(*                                                                         *)
(* Rust indexes from 0 and TLA+ sequences from 1: the byte the code calls  *)
(* input[i] is input[i + 1] here; every index variable keeps the code's    *)
(* 0-based value.                                                          *)
(***************************************************************************)
EXTENDS Integers, Sequences, FiniteSets, TLC

VARIABLES
    \* ---- decompress_crilayla: its argument, its locals, its return
    input,                  \* the &[u8] argument
    lpc,                    \* position: "idle", "entry", "loop", "copy", "returned"
    lret,                   \* "none", "Ok", "Compression"
    result,                 \* the output Vec<u8>
    input_offset,           \* i32
    bit_pool,               \* u8
    bits_left,              \* i32
    bytes_output,           \* i32
    backreference_offset,   \* i32
    backreference_length,   \* i32
    copy_i,                 \* the copy loop's _i
    \* ---- the archive file and the Cpk object
    archive,                \* the file at the path given to read_cpk
    cpc,                    \* position of read_cpk: "new", "toc", "etoc", "itoc",
                            \*   "gtoc", "returned"
    cret,                   \* read_cpk's return: "none", "Ok", an error kind, "panic"
    file_table,             \* Vec<FileEntry>
    cpk_data,               \* HashMap<String, CellValue>
    toc_offset,             \* u64
    etoc_offset,            \* u64
    itoc_offset,            \* u64
    gtoc_offset,            \* u64
    content_offset,         \* u64
    align,                  \* read_cpk's local, u16
    overflow_checks,        \* the build: TRUE when integer overflow panics (debug),
                            \*   FALSE when it wraps (release)
    \* ---- extract_file / extract_all on the Cpk object, and the file system
    xpc,                    \* "idle", "files", "decompress", "returned"
    xret,                   \* "none", "Ok", an error kind
    target,                 \* extract_file's target; <<>> for extract_all
    xqueue,                 \* the entries still to extract
    xpath,                  \* output_path of the entry being decompressed
    created_dirs,           \* the directories create_dir_all made
    written,                \* the files std::fs::write wrote, in order
    allocated,              \* the buffer last allocated with a size taken from the
                            \*   archive: where, its size, the bytes left to fill it
    \* ---- extractors that share the Cpk object (&self), each in its own call
    extractors,             \* per extractor: position, call, return, entries left,
                            \*   files written
    handles,                \* per file handle: the position of its cursor
    \* ---- read_utf_data's check of the blob it read, and decrypt_utf
    raw_packet,             \* the bytes read from the file
    utf_packet,             \* utf_packet
    is_enc,                 \* is_encrypted
    dpc,                    \* "idle", "read_utf_data", "decrypt", "returned"
    dret,                   \* "none", "Ok", an error kind
    dcount,                 \* how many times decrypt_utf was applied
    \* ---- Utf::read_utf on a blob
    utf_blob,               \* the blob: its header fields, columns and rows
    utf_parsed,             \* what read_utf returned
    upc,                    \* "idle", "call", "returned"
    \* ---- get_next_bits called on its own
    bits_call               \* the last call: its bit_count, Ok or Err, the value

laylaVars == <<input, lpc, lret, result, input_offset, bit_pool, bits_left,
               bytes_output, backreference_offset, backreference_length, copy_i>>

cpkVars == <<archive, cpc, cret, file_table, cpk_data, toc_offset, etoc_offset,
             itoc_offset, gtoc_offset, content_offset, align, overflow_checks>>

extractCtl == <<xpc, xret, target, xqueue, xpath, created_dirs, written>>

concVars == <<extractors, handles>>

extractVars == <<extractCtl, allocated, concVars>>

packetVars == <<raw_packet, utf_packet, is_enc, dpc, dret, dcount>>

tableVars == <<utf_blob, utf_parsed, upc>>

pureVars == <<packetVars, tableVars, bits_call>>

vars == <<laylaVars, cpkVars, extractVars, pureVars>>

\* ------------------------------------------------------------------------
\* Program constants of compression.rs
\* ------------------------------------------------------------------------
MIN_INPUT == 16
PLAIN_HEADER == 256
PREFIX == 16
MAX_UNCOMPRESSED == 100000000
OFFSET_BITS == 13
MIN_MATCH == 3

vle_lens == <<2, 3, 5, 8>>

\* ------------------------------------------------------------------------
\* Integer helpers
\* ------------------------------------------------------------------------
Pow2(n) == 2 ^ n

Min(a, b) == IF a < b THEN a ELSE b

Byte == 0 .. 255

\* i32::from little-endian bytes (EndianReader::read_i32, little endian)
I32LE(b0, b1, b2, b3) ==
    LET low == b0 + 256 * b1 + 65536 * b2
    IN  IF b3 >= 128 THEN (b3 - 256) * 16777216 + low
        ELSE b3 * 16777216 + low

Zeros(n) == [i \in 1 .. n |-> 0]

\* ------------------------------------------------------------------------
\* get_next_bits
\* ------------------------------------------------------------------------
RECURSIVE GetBitsLoop(_, _, _, _, _, _, _)
GetBitsLoop(inp, off, pool, left, bit_count, produced, out_bits) ==
    IF produced >= bit_count
    THEN [ok |-> TRUE, bits |-> out_bits, off |-> off, pool |-> pool, left |-> left]
    ELSE IF left = 0 /\ (off < 0 \/ off >= Len(inp))
    THEN [ok |-> FALSE, bits |-> 0, off |-> off, pool |-> pool, left |-> left]
    ELSE
        LET pool1 == IF left = 0 THEN inp[off + 1] ELSE pool
            left1 == IF left = 0 THEN 8 ELSE left
            off1  == IF left = 0 THEN off - 1 ELSE off
            bits_this_round ==
                IF left1 > bit_count - produced THEN bit_count - produced ELSE left1
            shifted == (out_bits * Pow2(bits_this_round)) % 65536
            mask == IF bits_this_round >= 8 THEN 256 ELSE Pow2(bits_this_round)
            shift == left1 - bits_this_round
            extracted == (pool1 \div Pow2(shift)) % mask
        IN  GetBitsLoop(inp, off1, pool1, left1 - bits_this_round, bit_count,
                        produced + bits_this_round, shifted + extracted)

\* A pool that is thrown away between calls
get_next_bits_Reload(inp, off, pool, left, bit_count) ==
    GetBitsLoop(inp, off, pool, 0, bit_count, 0, 0)

get_next_bits(inp, off, pool, left, bit_count) ==
    GetBitsLoop(inp, off, pool, left, bit_count, 0, 0)

Rd(g) == [off |-> g.off, pool |-> g.pool, left |-> g.left]

\* ------------------------------------------------------------------------
\* The match length: the four-level code, then the 8-bit extension
\* ------------------------------------------------------------------------
\* for level in 0..vle_lens.len(): level is the code's 0-based index
RECURSIVE VleLoop(_, _, _, _, _)
VleLoop(inp, rd, level, length, vle_level) ==
    IF level >= Len(vle_lens)
    THEN [ok |-> TRUE, length |-> length, vle_level |-> vle_level, rd |-> rd]
    ELSE
        LET g == get_next_bits(inp, rd.off, rd.pool, rd.left, vle_lens[level + 1])
        IN  IF ~g.ok
            THEN [ok |-> FALSE, length |-> length, vle_level |-> vle_level, rd |-> Rd(g)]
            ELSE IF g.bits # Pow2(vle_lens[level + 1]) - 1
            THEN [ok |-> TRUE, length |-> length + g.bits, vle_level |-> level,
                  rd |-> Rd(g)]
            ELSE VleLoop(inp, Rd(g), level + 1, length + g.bits, level)

\* loop { ... if this_level != 255 { break; } }
RECURSIVE ExtLoop(_, _, _)
ExtLoop(inp, rd, length) ==
    LET g == get_next_bits(inp, rd.off, rd.pool, rd.left, 8)
    IN  IF ~g.ok
        THEN [ok |-> FALSE, length |-> length, rd |-> Rd(g)]
        ELSE IF g.bits # 255
        THEN [ok |-> TRUE, length |-> length + g.bits, rd |-> Rd(g)]
        ELSE ExtLoop(inp, Rd(g), length + g.bits)

\* The extension is entered when vle_level == vle_lens.len(); vle_level is the
\* index of the last level read, so it is at most vle_lens.len() - 1.
ExtensionEntered(vle_level) == vle_level = Len(vle_lens)

\* A length that starts at 0 instead of 3
ReadLength_FromZero(inp, rd) ==
    LET v == VleLoop(inp, rd, 0, 0, 0)
    IN  [ok |-> v.ok, length |-> v.length, rd |-> v.rd]

ReadLength(inp, rd) ==
    LET v == VleLoop(inp, rd, 0, MIN_MATCH, 0)
    IN  IF ~v.ok THEN [ok |-> FALSE, length |-> v.length, rd |-> v.rd]
        ELSE IF ExtensionEntered(v.vle_level) THEN ExtLoop(inp, v.rd, v.length)
        ELSE [ok |-> TRUE, length |-> v.length, rd |-> v.rd]

\* ------------------------------------------------------------------------
\* decompress_crilayla: the header
\* ------------------------------------------------------------------------
uncompressed_size_of(inp) == I32LE(inp[9], inp[10], inp[11], inp[12])

uncompressed_header_offset_of(inp) == I32LE(inp[13], inp[14], inp[15], inp[16])

\* A slice that forgets the 0x10 bytes before the stream
HeaderSlice_NoPrefix(inp, header_offset) ==
    SubSeq(inp, header_offset + 1, header_offset + PLAIN_HEADER)

\* &input[uncompressed_header_offset + 0x10 .. uncompressed_header_offset + 0x10 + 0x100]
HeaderSlice(inp, header_offset) ==
    SubSeq(inp, header_offset + PREFIX + 1, header_offset + PREFIX + PLAIN_HEADER)

\* vec![0u8; uncompressed_size + 0x100] with result[0..0x100] overwritten
InitialResult(inp, size, header_offset) ==
    HeaderSlice(inp, header_offset) \o Zeros(size)

\* (0x100 + uncompressed_size - 1) as i32
output_end_of(size) == PLAIN_HEADER + size - 1

\* A write index that counts up from the start of the buffer
output_pos_of_Forward(size, out) == out

\* (output_end - bytes_output) as usize
output_pos_of(size, out) == output_end_of(size) - out

\* The header checks, in the code's order; "" when all pass
HeaderError(inp) ==
    IF Len(inp) < MIN_INPUT THEN "Input too short for CRILAYLA"
    ELSE IF uncompressed_header_offset_of(inp) < 0 \/ uncompressed_size_of(inp) < 0
    THEN "Invalid CRILAYLA header values"
    ELSE IF uncompressed_size_of(inp) > MAX_UNCOMPRESSED
    THEN "Uncompressed size seems unreasonably large"
    ELSE IF uncompressed_header_offset_of(inp) + PREFIX + PLAIN_HEADER > Len(inp)
    THEN "Invalid header offset"
    ELSE IF Len(inp) < PLAIN_HEADER + 1 THEN "Input too short for decompression"
    ELSE ""

\* ------------------------------------------------------------------------
\* decompress_crilayla: the steps
\* ------------------------------------------------------------------------
LaylaReturn(r) ==
    /\ lpc' = "returned"
    /\ lret' = r

\* Lines 7-78: the header checks, the allocation, the locals
LaylaEnter ==
    /\ lpc = "entry"
    /\ IF HeaderError(input) # ""
       THEN /\ LaylaReturn("Compression")
            /\ UNCHANGED <<input, result, input_offset, bit_pool, bits_left,
                           bytes_output, backreference_offset,
                           backreference_length, copy_i>>
       ELSE /\ lpc' = "loop"
            /\ result' = InitialResult(input, uncompressed_size_of(input),
                                       uncompressed_header_offset_of(input))
            /\ input_offset' = Len(input) - PLAIN_HEADER - 1
            /\ bit_pool' = 0
            /\ bits_left' = 0
            /\ bytes_output' = 0
            /\ UNCHANGED <<input, lret, backreference_offset,
                           backreference_length, copy_i>>

\* The reader's state after a read
SetReader(rd) ==
    /\ input_offset' = rd.off
    /\ bit_pool' = rd.pool
    /\ bits_left' = rd.left

\* Lines 175-181: a verbatim byte
LiteralToken(rd) ==
    LET g == get_next_bits(input, rd.off, rd.pool, rd.left, 8)
        size == uncompressed_size_of(input)
    IN  IF ~g.ok
        THEN /\ LaylaReturn("Compression")
             /\ UNCHANGED <<result, input_offset, bit_pool, bits_left, bytes_output,
                            backreference_offset, backreference_length, copy_i>>
        ELSE /\ result' = [result EXCEPT ![output_pos_of(size, bytes_output) + 1] =
                               g.bits % 256]
             /\ bytes_output' = bytes_output + 1
             /\ SetReader(Rd(g))
             /\ UNCHANGED <<lpc, lret, backreference_offset, backreference_length,
                            copy_i>>

\* Lines 100-144: the offset and the length of a back reference
BackrefToken(rd) ==
    LET o == get_next_bits(input, rd.off, rd.pool, rd.left, OFFSET_BITS)
        size == uncompressed_size_of(input)
    IN  IF ~o.ok
        THEN \* break: the loop is left and the function returns Ok(result)
             /\ LaylaReturn("Ok")
             /\ UNCHANGED <<result, input_offset, bit_pool, bits_left, bytes_output,
                            backreference_offset, backreference_length, copy_i>>
        ELSE LET l == ReadLength(input, Rd(o))
             IN  IF ~l.ok
                 THEN /\ LaylaReturn("Compression")
                      /\ UNCHANGED <<result, input_offset, bit_pool, bits_left,
                                     bytes_output, backreference_offset,
                                     backreference_length, copy_i>>
                 ELSE /\ lpc' = "copy"
                      /\ backreference_offset' =
                             output_end_of(size) - bytes_output + o.bits + MIN_MATCH
                      /\ backreference_length' = l.length
                      /\ copy_i' = 0
                      /\ SetReader(l.rd)
                      /\ UNCHANGED <<lret, result, bytes_output>>

\* Lines 80-99: one pass through the head of the while loop
DecodeToken ==
    /\ lpc = "loop"
    /\ UNCHANGED input
    /\ IF bytes_output >= uncompressed_size_of(input) \/ input_offset < 0
       THEN \* the loop condition fails, or the break of line 87
            /\ LaylaReturn("Ok")
            /\ UNCHANGED <<result, input_offset, bit_pool, bits_left, bytes_output,
                           backreference_offset, backreference_length, copy_i>>
       ELSE LET c == get_next_bits(input, input_offset, bit_pool, bits_left, 1)
            IN  IF ~c.ok
                THEN /\ LaylaReturn("Ok")
                     /\ UNCHANGED <<result, input_offset, bit_pool, bits_left,
                                    bytes_output, backreference_offset,
                                    backreference_length, copy_i>>
                ELSE IF c.bits > 0 THEN BackrefToken(Rd(c))
                ELSE LiteralToken(Rd(c))

\* A copy that takes every source index for outside result
SourceOutside_Always(back, len) == TRUE

\* Whether the source index is outside result (line 164)
SourceOutside(back, len) == back < 0 \/ back >= len

\* Lines 147-173: one pass through the copy loop
CopyByte ==
    /\ lpc = "copy"
    /\ UNCHANGED <<input, input_offset, bit_pool, bits_left, backreference_length>>
    /\ LET size == uncompressed_size_of(input)
           output_pos == output_pos_of(size, bytes_output)
       IN  IF copy_i >= backreference_length \/ bytes_output >= size
           THEN /\ lpc' = "loop"
                /\ UNCHANGED <<lret, result, bytes_output, backreference_offset,
                               copy_i>>
           ELSE IF output_pos >= Len(result)
           THEN /\ LaylaReturn("Compression")
                /\ UNCHANGED <<result, bytes_output, backreference_offset, copy_i>>
           ELSE /\ result' =
                      [result EXCEPT ![output_pos + 1] =
                          IF SourceOutside(backreference_offset, Len(result))
                          THEN 0
                          ELSE result[backreference_offset + 1]]
                /\ backreference_offset' = backreference_offset - 1
                /\ bytes_output' = bytes_output + 1
                /\ copy_i' = copy_i + 1
                /\ UNCHANGED <<lpc, lret>>

\* ------------------------------------------------------------------------
\* decompress_crilayla as one call: the same steps, run to the return
\* ------------------------------------------------------------------------
\* The copy loop (lines 147-173) from its first pass to its exit
RECURSIVE CopyLoop(_, _, _, _, _, _)
CopyLoop(res, back, out, i, length, size) ==
    IF i >= length \/ out >= size THEN [ok |-> TRUE, res |-> res, out |-> out]
    ELSE IF output_pos_of(size, out) >= Len(res)
    THEN [ok |-> FALSE, res |-> res, out |-> out]
    ELSE CopyLoop([res EXCEPT ![output_pos_of(size, out) + 1] =
                       IF SourceOutside(back, Len(res)) THEN 0 ELSE res[back + 1]],
                  back - 1, out + 1, i + 1, length, size)

\* The while loop (lines 80-181) from one token to the return
RECURSIVE TokenLoop(_, _, _, _)
TokenLoop(inp, res, rd, out) ==
    LET size == uncompressed_size_of(inp)
        c == get_next_bits(inp, rd.off, rd.pool, rd.left, 1)
        o == get_next_bits(inp, c.off, c.pool, c.left, OFFSET_BITS)
        l == ReadLength(inp, Rd(o))
        cp == CopyLoop(res, output_end_of(size) - out + o.bits + MIN_MATCH, out, 0,
                       l.length, size)
        g == get_next_bits(inp, c.off, c.pool, c.left, 8)
    IN  IF out >= size \/ rd.off < 0 THEN [ok |-> TRUE, data |-> res]
        ELSE IF ~c.ok THEN [ok |-> TRUE, data |-> res]
        ELSE IF c.bits > 0
        THEN IF ~o.ok THEN [ok |-> TRUE, data |-> res]
             ELSE IF ~l.ok THEN [ok |-> FALSE, data |-> <<>>]
             ELSE IF ~cp.ok THEN [ok |-> FALSE, data |-> <<>>]
             ELSE TokenLoop(inp, cp.res, l.rd, cp.out)
        ELSE IF ~g.ok THEN [ok |-> FALSE, data |-> <<>>]
        ELSE TokenLoop(inp, [res EXCEPT ![output_pos_of(size, out) + 1] = g.bits % 256],
                       Rd(g), out + 1)

\* decompress_crilayla(input): Ok(result) or Err(Compression)
decompress_crilayla(inp) ==
    IF HeaderError(inp) # "" THEN [ok |-> FALSE, data |-> <<>>]
    ELSE TokenLoop(inp,
                   InitialResult(inp, uncompressed_size_of(inp),
                                 uncompressed_header_offset_of(inp)),
                   [off |-> Len(inp) - PLAIN_HEADER - 1, pool |-> 0, left |-> 0], 0)

\* ------------------------------------------------------------------------
\* The inputs decompress_crilayla is run on
\* ------------------------------------------------------------------------
\* Bounds of the input space
MaxTokens == 3
MaxStreamLen == 2
MaxRawSize == 24

\* "CRILAYLA"
Magic == <<67, 82, 73, 76, 65, 89, 76, 65>>

\* The 0x100 plaintext bytes that end a blob
PlainBytes == [i \in 1 .. PLAIN_HEADER |-> (i * 7 + 3) % 251]

\* A non-negative 32-bit value as four little-endian bytes
LE32(n) == <<n % 256, (n \div 256) % 256, (n \div 65536) % 256, (n \div 16777216) % 256>>

\* 'CRILAYLA' | uncompressed_size | uncompressed_header_offset | stream | plaintext
Blob(size_bytes, offset_bytes, stream, plain) ==
    Magic \o size_bytes \o offset_bytes \o stream \o plain

Reverse(s) == [i \in 1 .. Len(s) |-> s[Len(s) + 1 - i]]

\* n as k bits, most significant first
RECURSIVE Bits(_, _)
Bits(n, k) == IF k = 0 THEN <<>> ELSE Bits(n \div 2, k - 1) \o <<n % 2>>

\* The tokens of the format: a literal byte, or a match (offset field, length)
Lit(b) == [t |-> "lit", b |-> b, off |-> 0, len |-> 1]

Ref(off, len) == [t |-> "ref", b |-> 0, off |-> off, len |-> len]

\* The 8-bit extension chunks of a length whose four fields are all ones
RECURSIVE ExtBits(_)
ExtBits(rem) ==
    IF rem < 255 THEN Bits(rem, 8) ELSE Bits(255, 8) \o ExtBits(rem - 255)

\* The fields of a match length (the format's code: 2, 3, 5, 8 bits, then chunks)
RECURSIVE LengthBits(_, _)
LengthBits(rem, level) ==
    IF level > Len(vle_lens) THEN ExtBits(rem)
    ELSE LET ones == Pow2(vle_lens[level]) - 1
         IN  IF rem < ones THEN Bits(rem, vle_lens[level])
             ELSE Bits(ones, vle_lens[level]) \o LengthBits(rem - ones, level + 1)

TokenBits(tok) ==
    IF tok.t = "lit" THEN <<0>> \o Bits(tok.b, 8)
    ELSE <<1>> \o Bits(tok.off, OFFSET_BITS) \o LengthBits(tok.len - MIN_MATCH, 1)

RECURSIVE StreamBits(_)
StreamBits(toks) ==
    IF toks = <<>> THEN <<>> ELSE TokenBits(Head(toks)) \o StreamBits(Tail(toks))

RECURSIVE BitsValue(_)
BitsValue(bits) ==
    IF bits = <<>> THEN 0
    ELSE 2 * BitsValue(SubSeq(bits, 1, Len(bits) - 1)) + bits[Len(bits)]

\* Bits packed into bytes, most significant bit first, the last byte zero padded
PackBits(bits) ==
    LET n == (Len(bits) + 7) \div 8
        padded == bits \o [i \in 1 .. (8 * n - Len(bits)) |-> 0]
    IN  [i \in 1 .. n |-> BitsValue(SubSeq(padded, 8 * i - 7, 8 * i))]

RECURSIVE DecodedSize(_)
DecodedSize(toks) ==
    IF toks = <<>> THEN 0 ELSE Head(toks).len + DecodedSize(Tail(toks))

\* A match is in range when its first source byte is already decoded
RECURSIVE InRange(_, _)
InRange(toks, done) ==
    \/ toks = <<>>
    \/ /\ Head(toks).t = "ref" => Head(toks).off + MIN_MATCH <= done
       /\ InRange(Tail(toks), done + Head(toks).len)

\* The blob that encodes a token list: the stream is read from its last byte down
EncodedBlob(toks) ==
    LET stream == Reverse(PackBits(StreamBits(toks)))
    IN  Blob(LE32(DecodedSize(toks)), LE32(Len(stream)), stream, PlainBytes)

TokenAlphabet == {Lit(1), Lit(2), Lit(3), Lit(200), Ref(0, 3), Ref(1, 5), Ref(0, 18)}

TokenLists == UNION {[1 .. n -> TokenAlphabet] : n \in 0 .. MaxTokens}

\* Matches whose length needs the 8-bit extension
LongLists == {<<Lit(1), Lit(2), Lit(3), Ref(0, n)>> : n \in {298, 299, 300}}

WellFormedLists == {t \in TokenLists \cup LongLists : InRange(t, 0)}

\* Streams that are not built from tokens: any bytes, any declared size
RawBytes == {0, 1, 128, 255}

RawStreams == UNION {[1 .. n -> RawBytes] : n \in 0 .. MaxStreamLen}

RawBlobs ==
    {Blob(LE32(size), LE32(Len(st)), st, PlainBytes) :
        size \in 0 .. MaxRawSize, st \in RawStreams}

\* Blobs the header checks reject
BadHeaderBlobs ==
    { SubSeq(Magic, 1, 8) \o <<1, 0, 0>>,
      Blob(<<1, 0, 0, 255>>, LE32(0), <<>>, PlainBytes),
      Blob(LE32(1), <<0, 0, 0, 128>>, <<>>, PlainBytes),
      Blob(LE32(MAX_UNCOMPRESSED + 1), LE32(0), <<>>, PlainBytes),
      Blob(LE32(1), LE32(1), <<>>, PlainBytes) }

\* A blob whose plaintext region is not at its end
ShiftedBlobs ==
    {Blob(LE32(2), LE32(0), <<0, 129>>, PlainBytes)}

LaylaInputs ==
    {EncodedBlob(t) : t \in WellFormedLists} \cup RawBlobs \cup BadHeaderBlobs
        \cup ShiftedBlobs

\* ------------------------------------------------------------------------
\* The decompressor called on each input
\* ------------------------------------------------------------------------
\* No archive is read while the decompressor alone is run
\* No buffer has been allocated yet
NoBuffer == [site |-> "none", size |-> 0, remaining |-> 0]

Buffer(site, size, remaining) == [site |-> site, size |-> size, remaining |-> remaining]

\* The extractors that run side by side
Extractors == {1, 2}

IdleExtractor ==
    [pc |-> "idle", ret |-> "none", call |-> [kind |-> "none", target |-> <<>>],
     queue |-> <<>>, written |-> <<>>]

ConcIdle ==
    /\ extractors = [e \in Extractors |-> IdleExtractor]
    /\ handles = [h \in Extractors |-> 0]

CpkIdle ==
    /\ archive = <<>>
    /\ cpc = "idle"
    /\ cret = "none"
    /\ file_table = <<>>
    /\ cpk_data = <<>>
    /\ toc_offset = 0
    /\ etoc_offset = 0
    /\ itoc_offset = 0
    /\ gtoc_offset = 0
    /\ content_offset = 0
    /\ align = 0
    /\ overflow_checks = FALSE
    /\ xpc = "idle"
    /\ xret = "none"
    /\ target = <<>>
    /\ xqueue = <<>>
    /\ xpath = <<>>
    /\ created_dirs = {}
    /\ written = <<>>
    /\ allocated = NoBuffer
    /\ ConcIdle

\* Neither read_utf_data's check nor read_utf is run on its own
\* get_next_bits has not been called on its own
NoCall == [n |-> 0, ok |-> TRUE, bits |-> 0]

PureIdle ==
    /\ raw_packet = <<>>
    /\ utf_packet = <<>>
    /\ is_enc = FALSE
    /\ dpc = "idle"
    /\ dret = "none"
    /\ dcount = 0
    /\ utf_blob = <<>>
    /\ utf_parsed = <<>>
    /\ upc = "idle"
    /\ bits_call = NoCall

LaylaInit ==
    /\ CpkIdle
    /\ PureIdle
    /\ input \in LaylaInputs
    /\ lpc = "entry"
    /\ lret = "none"
    /\ result = <<>>
    /\ input_offset = 0
    /\ bit_pool = 0
    /\ bits_left = 0
    /\ bytes_output = 0
    /\ backreference_offset = 0
    /\ backreference_length = 0
    /\ copy_i = 0

LaylaNext ==
    \/ LaylaEnter /\ UNCHANGED <<cpkVars, extractVars, pureVars>>
    \/ DecodeToken /\ UNCHANGED <<cpkVars, extractVars, pureVars>>
    \/ CopyByte /\ UNCHANGED <<cpkVars, extractVars, pureVars>>

LaylaSpec == LaylaInit /\ [][LaylaNext]_vars

\* ------------------------------------------------------------------------
\* Claims about decompress_crilayla
\* ------------------------------------------------------------------------
\* The reference decoding of a token list, in decoding order: a literal is its
\* byte, and byte k of a match repeats the byte off + 3 places before it.
RECURSIVE CopyRef(_, _, _)
CopyRef(done, off, n) ==
    IF n = 0 THEN done
    ELSE CopyRef(Append(done, done[Len(done) - off - 2]), off, n - 1)

RECURSIVE Expand(_, _)
Expand(toks, done) ==
    IF toks = <<>> THEN done
    ELSE IF Head(toks).t = "lit"
    THEN Expand(Tail(toks), Append(done, Head(toks).b))
    ELSE Expand(Tail(toks), CopyRef(done, Head(toks).off, Head(toks).len))

\* The bytes of result after the 0x100 header
Payload == SubSeq(result, PLAIN_HEADER + 1, Len(result))

\* C1: whenever decompress_crilayla returns Ok, the buffer has length
\* 0x100 + uncompressed_size (the size declared at input bytes 8..12) and its
\* first 0x100 bytes are input[header_offset + 0x10 .. header_offset + 0x110].
C1_OkBufferShape ==
    lret = "Ok" =>
        /\ Len(result) = 256 + I32LE(input[9], input[10], input[11], input[12])
        /\ \A i \in 0 .. 255 :
               result[i + 1] =
                   input[I32LE(input[13], input[14], input[15], input[16]) + 16 + i + 1]

\* C1 witness: Ok after the decoder wrote literals and copied a match
C1_Witness ==
    /\ lret = "Ok"
    /\ bytes_output = uncompressed_size_of(input)
    /\ bytes_output >= 6
    /\ copy_i > 0

\* C2: for every well-formed input the bytes after the 0x100 header equal the
\* reference decoding of the stream (written from the end of the buffer down),
\* and the call returns Ok.
C2_DecodesWellFormed ==
    lpc = "returned" =>
        \A t \in WellFormedLists :
            input = EncodedBlob(t) =>
                lret = "Ok" /\ Payload = Reverse(Expand(t, <<>>))

\* C3: a stream exhausted before bytes_output reaches uncompressed_size is a
\* Compression error, never Ok with fewer bytes written.
C3_ExhaustedIsError ==
    (lpc = "returned" /\ HeaderError(input) = ""
        /\ bytes_output < uncompressed_size_of(input))
    => lret = "Compression"

\* C4: no output byte is produced from a source index outside the buffer: in
\* the copy loop the byte just written came from backreference_offset + 1.
C4_NoByteFromOutside ==
    (lpc = "copy" /\ copy_i > 0) =>
        ~SourceOutside(backreference_offset + 1, Len(result))

\* ========================================================================
\* The CPK reader (src/src/cpk.rs) over parsed @UTF tables (src/src/utf.rs)
\* ========================================================================
\* TLC's integers have 32 bits, so the model gives a u32 WordBits32 bits and a
\* u64 WordBits64 bits; u8 and u16 keep their width. All-ones sentinels,
\* wrapping and the order u16 < u32 < u64 are those of the code.
WordBits32 == 20
WordBits64 == 29

U8_MAX == 255
U16_MAX == 65535
U32_MAX == Pow2(WordBits32) - 1
U64_MAX == Pow2(WordBits64) - 1

\* 0x800, the floor of the TOC base (read_toc)
TOC_FLOOR == 2048

\* Option<T>
Some(x) == [some |-> TRUE, v |-> x]

NoneNum == [some |-> FALSE, v |-> 0]

NoneStr == [some |-> FALSE, v |-> <<>>]

unwrap_or(o, d) == IF o.some THEN o.v ELSE d

\* ------------------------------------------------------------------------
\* CellValue and its conversions (utf.rs)
\* ------------------------------------------------------------------------
CellNone == [kind |-> "None", v |-> 0]

Cell(kind, v) == [kind |-> kind, v |-> v]

as_u16(c) == IF c.kind = "UInt16" THEN Some(c.v) ELSE NoneNum

as_u32(c) == IF c.kind = "UInt32" THEN Some(c.v) ELSE NoneNum

as_u64(c) == IF c.kind = "UInt64" THEN Some(c.v) ELSE NoneNum

as_string(c) == IF c.kind = "String" THEN Some(c.v) ELSE NoneStr

as_data(c) == IF c.kind = "Data" THEN Some(c.v) ELSE NoneNum

\* ------------------------------------------------------------------------
\* Utf::read_utf on a table: columns <<[flags, name]>>, rows of raw values
\* ------------------------------------------------------------------------
STORAGE_NONE == 0
STORAGE_ZERO == 16
STORAGE_CONSTANT == 48
STORAGE_PERROW == 80

StorageFlag(flags) == (flags \div 16) * 16

ColumnType(flags) == flags % 16

\* The CellValue variant read_utf builds for a per-row column type
KindOfType(column_type) ==
    IF column_type \in {0, 1} THEN "UInt8"
    ELSE IF column_type \in {2, 3} THEN "UInt16"
    ELSE IF column_type \in {4, 5} THEN "UInt32"
    ELSE IF column_type \in {6, 7} THEN "UInt64"
    ELSE IF column_type = 8 THEN "Float"
    ELSE IF column_type = 10 THEN "String"
    ELSE IF column_type = 11 THEN "Data"
    ELSE "Unsupported"

\* The bytes a per-row cell of that type takes in its row
WidthOfType(column_type) ==
    IF column_type \in {0, 1} THEN 1
    ELSE IF column_type \in {2, 3} THEN 2
    ELSE IF column_type \in {4, 5} THEN 4
    ELSE IF column_type \in {6, 7} THEN 8
    ELSE IF column_type \in {8, 10} THEN 4
    ELSE IF column_type = 11 THEN 8
    ELSE 0

ColumnParses(flags) ==
    \/ StorageFlag(flags) \in {STORAGE_NONE, STORAGE_ZERO, STORAGE_CONSTANT}
    \/ /\ StorageFlag(flags) = STORAGE_PERROW
       /\ KindOfType(ColumnType(flags)) # "Unsupported"

\* The bytes of the row read before column j
RECURSIVE RowCursor(_, _)
RowCursor(columns, j) ==
    IF j <= 1 THEN 0
    ELSE RowCursor(columns, j - 1) +
         (IF StorageFlag(columns[j - 1].flags) = STORAGE_PERROW
          THEN WidthOfType(ColumnType(columns[j - 1].flags)) ELSE 0)

\* The u32 header fields are relative; offset + 8 is added (lines 164-166),
\* offset being 0
Rebase(field) == field + 0 + 8

\* The header (32 bytes) and the column records (5 bytes each, the flags
\* byte not being 0) end here
HEADER_END == 32
COLUMN_RECORD == 5

ColumnsEnd(t) == HEADER_END + COLUMN_RECORD * Len(t.columns)

\* The cursor at the start of cell j of row i (rows and columns from 1)
CellPosition(t, i, j) ==
    Rebase(t.rows_offset) + (i - 1) * t.row_length + RowCursor(t.columns, j)

\* What reading cell j of row i gives: "" when it is read, else the error. A
\* string or blob cell's heap bytes are taken to be inside the buffer.
CellError(t, i, j) ==
    LET flags == t.columns[j].flags
    IN  IF ~ColumnParses(flags) THEN "Parse"
        ELSE IF /\ StorageFlag(flags) = STORAGE_PERROW
                /\ CellPosition(t, i, j) + WidthOfType(ColumnType(flags)) > t.len
        THEN "Io"
        ELSE ""

\* The cells in reading order, numbered from 0: cell k is cell (k mod columns)
\* + 1 of row (k div columns) + 1
FirstCellError(t) ==
    LET n == Len(t.columns)
        bad == {k \in 0 .. Len(t.rows) * n - 1 :
                    CellError(t, (k \div n) + 1, (k % n) + 1) # ""}
    IN  IF bad = {} THEN ""
        ELSE LET k == CHOOSE k \in bad : \A h \in bad : k <= h
             IN  CellError(t, (k \div n) + 1, (k % n) + 1)

\* A check of the rows offset alone
OffsetsExceed_RowsOnly(t) == Rebase(t.rows_offset) > t.len

\* Lines 184-204: one of the three rebased offsets is beyond the buffer
OffsetsExceed(t) ==
    \/ Rebase(t.rows_offset) > t.len
    \/ Rebase(t.strings_offset) > t.len
    \/ Rebase(t.data_offset) > t.len

\* The error of lines 146-240, before any row is read: "" when there is none
HeaderErrorOfUtf(t) ==
    IF t.len < 4 THEN "Io"
    ELSE IF ~t.is_utf THEN "InvalidUtfSignature"
    ELSE IF t.len < HEADER_END THEN "Io"
    ELSE IF OffsetsExceed(t) THEN "InvalidFormat"
    ELSE IF ColumnsEnd(t) > t.len THEN "Io"
    ELSE ""

\* One cell: its value and the position it was read at
ReadCell(t, i, j) ==
    LET flags == t.columns[j].flags
        position == CellPosition(t, i, j)
    IN  IF StorageFlag(flags) = STORAGE_PERROW
        THEN [value |-> Cell(KindOfType(ColumnType(flags)), t.rows[i][j]),
              position |-> position]
        ELSE [value |-> CellNone, position |-> position]

UtfError(err) ==
    [ok |-> FALSE, err |-> err, columns |-> <<>>, rows |-> <<>>, num_rows |-> 0,
     rows_offset |-> 0, strings_offset |-> 0, data_offset |-> 0, row_length |-> 0]

\* read_utf on the blob t: the first error in reading order, or the table
ReadUtf(t) ==
    IF HeaderErrorOfUtf(t) # "" THEN UtfError(HeaderErrorOfUtf(t))
    ELSE IF FirstCellError(t) # "" THEN UtfError(FirstCellError(t))
    ELSE [ok |-> TRUE, err |-> "",
          columns |-> t.columns,
          rows |-> [i \in 1 .. Len(t.rows) |->
                       [j \in 1 .. Len(t.columns) |-> ReadCell(t, i, j)]],
          num_rows |-> Len(t.rows),
          rows_offset |-> Rebase(t.rows_offset),
          strings_offset |-> Rebase(t.strings_offset),
          data_offset |-> Rebase(t.data_offset),
          row_length |-> t.row_length]

\* Utf::new(): no columns, no rows
EmptyUtf ==
    [ok |-> TRUE, err |-> "", columns |-> <<>>, rows |-> <<>>, num_rows |-> 0,
     rows_offset |-> 0, strings_offset |-> 0, data_offset |-> 0, row_length |-> 0]

\* columns.iter().position(|c| c.name == column_name): 0 when there is none
ColumnIndex(utf, column_name) ==
    LET hits == {j \in 1 .. Len(utf.columns) : utf.columns[j].name = column_name}
    IN  IF hits = {} THEN 0 ELSE CHOOSE j \in hits : \A k \in hits : j <= k

\* get_column_data: row is the code's 0-based row
HasCell(utf, row, column_name) ==
    /\ ColumnIndex(utf, column_name) # 0
    /\ row + 1 <= Len(utf.rows)

get_column_data(utf, row, column_name) ==
    utf.rows[row + 1][ColumnIndex(utf, column_name)].value

get_column_position(utf, row, column_name) ==
    utf.rows[row + 1][ColumnIndex(utf, column_name)].position

\* The all-ones value get_column_data_or_default gives for a default_type
DefaultCell(default_type) ==
    IF default_type = 0 THEN Cell("UInt8", U8_MAX)
    ELSE IF default_type = 1 THEN Cell("UInt16", U16_MAX)
    ELSE IF default_type = 2 THEN Cell("UInt32", U32_MAX)
    ELSE IF default_type = 3 THEN Cell("UInt64", U64_MAX)
    ELSE CellNone

get_column_data_or_default(utf, row, column_name, default_type) ==
    IF ~HasCell(utf, row, column_name) THEN DefaultCell(default_type)
    ELSE IF get_column_data(utf, row, column_name).kind = "None"
    THEN DefaultCell(default_type)
    ELSE get_column_data(utf, row, column_name)

\* ------------------------------------------------------------------------
\* Strings are sequences of character codes
\* ------------------------------------------------------------------------
S_CPK_HDR == <<67, 80, 75, 95, 72, 68, 82>>

S_CONTENT_OFFSET == <<67, 79, 78, 84, 69, 78, 84, 95, 79, 70, 70, 83, 69, 84>>

S_TOC_HDR == <<84, 79, 67, 95, 72, 68, 82>>

S_ETOC_HDR == <<69>> \o S_TOC_HDR

S_ITOC_HDR == <<73>> \o S_TOC_HDR

S_GTOC_HDR == <<71>> \o S_TOC_HDR

\* The decimal digits of n, as character codes
RECURSIVE Digits(_)
Digits(n) == IF n < 10 THEN <<48 + n>> ELSE Digits(n \div 10) \o <<48 + (n % 10)>>

\* format!("{:04}", id)
Format04(id) ==
    LET d == Digits(id)
    IN  IF Len(d) >= 4 THEN d ELSE [i \in 1 .. (4 - Len(d)) |-> 48] \o d

\* ------------------------------------------------------------------------
\* u64 arithmetic: the sum wraps in a release build and panics in a debug build
\* ------------------------------------------------------------------------
Overflows64(a, b) == a + b > U64_MAX

Add64(a, b) == (a + b) % (U64_MAX + 1)

\* ------------------------------------------------------------------------
\* FileEntry
\* ------------------------------------------------------------------------
\* FileEntry::new()
NewEntry ==
    [dir_name |-> NoneStr, file_name |-> <<>>, file_size |-> 0, file_size_pos |-> 0,
     extract_size |-> NoneNum, extract_size_pos |-> NoneNum, file_offset |-> 0,
     file_offset_pos |-> 0, id |-> NoneNum, user_string |-> NoneStr,
     local_dir |-> NoneStr, toc_name |-> "", file_type |-> "", encrypted |-> FALSE,
     offset |-> 0]

\* A sub-table read with no pseudo-entry of its own pushed first
HdrEntry_Blank(name, offset) == NewEntry

\* The pseudo-entry pushed before a sub-table is read
HdrEntry(name, offset) ==
    [NewEntry EXCEPT !.file_name = name, !.file_offset = offset,
                     !.file_type = "HDR", !.toc_name = "CPK"]

\* file_table.iter_mut().find(|e| e.file_name == name): its index, 0 when none
FindByName(table, name) ==
    LET hits == {k \in 1 .. Len(table) : table[k].file_name = name}
    IN  IF hits = {} THEN 0 ELSE CHOOSE k \in hits : \A h \in hits : k <= h

\* entry.encrypted = is_encrypted; entry.file_size = utf_data.len()
UpdateHdr(table, name, is_encrypted, len) ==
    LET k == FindByName(table, name)
    IN  IF k = 0 THEN table
        ELSE [table EXCEPT ![k].encrypted = is_encrypted, ![k].file_size = len]

\* ------------------------------------------------------------------------
\* The archive file: framed sections at offsets, and payload bytes
\* ------------------------------------------------------------------------
MAX_UTF_SIZE == 100000000

\* b"CPK ", b"TOC ", b"ETOC", b"ITOC", b"GTOC"
SIG_CPK == <<67, 80, 75, 32>>

SIG_TOC == <<84, 79, 67, 32>>

SIG_ETOC == <<69, 84, 79, 67>>

SIG_ITOC == <<73, 84, 79, 67>>

SIG_GTOC == <<71, 84, 79, 67>>

\* The byte of the file at pos: a payload byte, a byte of a section's signature,
\* and 0 elsewhere
ArchiveByte(a, pos) ==
    IF \E st \in DOMAIN a.payloads : st <= pos /\ pos < st + Len(a.payloads[st])
    THEN LET st == CHOOSE st \in DOMAIN a.payloads :
                       st <= pos /\ pos < st + Len(a.payloads[st])
         IN  a.payloads[st][pos - st + 1]
    ELSE IF \E st \in DOMAIN a.sections : st <= pos /\ pos < st + 4
    THEN LET st == CHOOSE st \in DOMAIN a.sections : st <= pos /\ pos < st + 4
         IN  a.sections[st].sig[pos - st + 1]
    ELSE 0

\* read_exact of n bytes at off: <<>> with ok FALSE when the file ends before
ReadExact(a, off, n) ==
    IF off + n > a.file_size THEN [ok |-> FALSE, data |-> <<>>]
    ELSE [ok |-> TRUE, data |-> [i \in 1 .. n |-> ArchiveByte(a, off + i - 1)]]

\* reader.read_bytes(4) after a seek to off
SignatureAt(a, off) == ReadExact(a, off, 4)

\* read_utf_data on the section whose signature starts at off
ReadUtfData(a, off) ==
    LET sec == a.sections[off]
        current_pos == off + 16
    IN  IF sec.utf_size < 0 THEN [ok |-> FALSE, err |-> "InvalidFormat", alloc |-> FALSE]
        ELSE IF current_pos + sec.utf_size > a.file_size
        THEN [ok |-> FALSE, err |-> "InvalidFormat", alloc |-> FALSE]
        ELSE IF sec.utf_size > MAX_UTF_SIZE
        THEN [ok |-> FALSE, err |-> "InvalidFormat", alloc |-> FALSE]
        ELSE IF sec.utf_size < 4 \/ ~sec.utf_sig_ok
        THEN [ok |-> FALSE, err |-> "InvalidFormat", alloc |-> TRUE]
        ELSE [ok |-> TRUE, err |-> "", alloc |-> TRUE]

\* Seek to off, check the signature, read the inner UTF blob
OpenSection(a, off, signature, sig_error) ==
    IF ~SignatureAt(a, off).ok THEN [ok |-> FALSE, err |-> "Io", alloc |-> FALSE]
    ELSE IF SignatureAt(a, off).data # signature
    THEN [ok |-> FALSE, err |-> sig_error, alloc |-> FALSE]
    ELSE IF off \notin DOMAIN a.sections
    THEN [ok |-> FALSE, err |-> "InvalidFormat", alloc |-> FALSE]
    ELSE ReadUtfData(a, off)

\* The buffer read_bytes(utf_size) allocates in read_utf_data (line 294), when
\* the section at off is read that far; otherwise the buffer before
SectionBuffer(a, off, signature, before) ==
    IF off = U64_MAX THEN before
    ELSE IF OpenSection(a, off, signature, "").alloc
    THEN Buffer("utf_packet", a.sections[off].utf_size, a.file_size - (off + 16))
    ELSE before

\* A base that takes toc_offset as it is
f_toc_offset_of_Raw(toc) == toc

\* ------------------------------------------------------------------------
\* read_toc
\* ------------------------------------------------------------------------
\* f_toc_offset (lines 358-362)
f_toc_offset_of(toc) == IF toc > TOC_FLOOR THEN TOC_FLOOR ELSE toc

\* A base that is content_offset whenever the header declares one
add_offset_of_Content(toc, content) ==
    IF content = U64_MAX THEN f_toc_offset_of(toc) ELSE content

\* add_offset (lines 364-372)
add_offset_of(toc, content) ==
    IF content = U64_MAX THEN f_toc_offset_of(toc)
    ELSE IF toc = U64_MAX THEN content
    ELSE IF content < f_toc_offset_of(toc) THEN content
    ELSE f_toc_offset_of(toc)

\* The FileOffset cell of a row as read_toc takes it: as_u64().unwrap_or(0)
TocBaseOffset(utf, row) ==
    IF HasCell(utf, row, "FileOffset")
    THEN unwrap_or(as_u64(get_column_data(utf, row, "FileOffset")), 0)
    ELSE 0

\* The FileEntry of one TOC row (lines 399-468); row is 0-based
TocEntry(utf, row, add_offset) ==
    [NewEntry EXCEPT
        !.toc_name = "TOC",
        !.file_type = "FILE",
        !.offset = add_offset,
        !.dir_name =
            IF HasCell(utf, row, "DirName")
            THEN as_string(get_column_data(utf, row, "DirName")) ELSE NoneStr,
        !.file_name =
            IF HasCell(utf, row, "FileName")
            THEN unwrap_or(as_string(get_column_data(utf, row, "FileName")), <<>>)
            ELSE <<>>,
        !.file_size =
            IF HasCell(utf, row, "FileSize")
            THEN unwrap_or(as_u64(get_column_data(utf, row, "FileSize")), 0) ELSE 0,
        !.file_size_pos =
            IF HasCell(utf, row, "FileSize")
            THEN get_column_position(utf, row, "FileSize") ELSE 0,
        !.extract_size =
            IF HasCell(utf, row, "ExtractSize")
            THEN as_u64(get_column_data(utf, row, "ExtractSize")) ELSE NoneNum,
        !.extract_size_pos =
            IF HasCell(utf, row, "ExtractSize")
            THEN Some(get_column_position(utf, row, "ExtractSize")) ELSE NoneNum,
        !.file_offset =
            IF HasCell(utf, row, "FileOffset")
            THEN Add64(TocBaseOffset(utf, row), add_offset) ELSE 0,
        !.file_offset_pos =
            IF HasCell(utf, row, "FileOffset")
            THEN get_column_position(utf, row, "FileOffset") ELSE 0,
        !.id =
            IF HasCell(utf, row, "ID")
            THEN as_u32(get_column_data(utf, row, "ID")) ELSE NoneNum,
        !.user_string =
            IF HasCell(utf, row, "UserString")
            THEN as_string(get_column_data(utf, row, "UserString")) ELSE NoneStr]

\* base_offset + add_offset overflows at this row
TocRowOverflows(utf, row, add_offset) ==
    HasCell(utf, row, "FileOffset") /\ Overflows64(TocBaseOffset(utf, row), add_offset)

\* The rows pushed before a panic: all of them when none overflows
TocRowsPushed(utf, add_offset, checks) ==
    LET bad == {i \in 1 .. utf.num_rows : TocRowOverflows(utf, i - 1, add_offset)}
    IN  IF checks /\ bad # {} THEN (CHOOSE i \in bad : \A k \in bad : i <= k) - 1
        ELSE utf.num_rows

\* A section reader's outcome: err is "" for Ok(()), table is file_table after it
Outcome(err, table) == [err |-> err, table |-> table]

\* read_toc with file_table = table (TOC_HDR already pushed)
read_toc(a, table, toc, content, checks) ==
    LET add_offset == add_offset_of(toc, content)
        o == OpenSection(a, toc, SIG_TOC, "InvalidFormat")
    IN  IF ~o.ok THEN Outcome(o.err, table)
        ELSE
            LET sec == a.sections[toc]
                table2 == UpdateHdr(table, S_TOC_HDR, sec.encrypted, sec.utf_size)
                utf == ReadUtf(sec.table)
            IN  IF ~utf.ok THEN Outcome(utf.err, table2)
                ELSE
                    LET n == TocRowsPushed(utf, add_offset, checks)
                        pushed == table2 \o [i \in 1 .. n |-> TocEntry(utf, i - 1, add_offset)]
                    IN  Outcome(IF n < utf.num_rows THEN "panic" ELSE "", pushed)

\* ------------------------------------------------------------------------
\* read_etoc
\* ------------------------------------------------------------------------
\* The indices of the FILE entries, in table order
\* Every index of the table, whatever the entry's type
FileIndices_All(table, k) == [i \in 1 .. (Len(table) + 1 - k) |-> k + i - 1]

RECURSIVE FileIndices(_, _)
FileIndices(table, k) ==
    IF k > Len(table) THEN <<>>
    ELSE (IF table[k].file_type = "FILE" THEN <<k>> ELSE <<>>) \o FileIndices(table, k + 1)

\* for (i, idx) in file_indices: attach LocalDir of row i to file_table[idx]
AttachLocalDirs(table, utf) ==
    LET file_indices == FileIndices(table, 1)
    IN  [k \in 1 .. Len(table) |->
            IF \E i \in 1 .. Len(file_indices) :
                   file_indices[i] = k /\ HasCell(utf, i - 1, "LocalDir")
            THEN LET i == CHOOSE i \in 1 .. Len(file_indices) : file_indices[i] = k
                 IN  [table[k] EXCEPT
                         !.local_dir = as_string(get_column_data(utf, i - 1, "LocalDir"))]
            ELSE table[k]]

read_etoc(a, table, etoc) ==
    LET o == OpenSection(a, etoc, SIG_ETOC, "InvalidFormat")
    IN  IF ~o.ok THEN Outcome(o.err, table)
        ELSE
            LET sec == a.sections[etoc]
                table2 == UpdateHdr(table, S_ETOC_HDR, sec.encrypted, sec.utf_size)
                utf == ReadUtf(sec.table)
            IN  IF ~utf.ok THEN Outcome(utf.err, table2)
                ELSE Outcome("", AttachLocalDirs(table2, utf))

\* ------------------------------------------------------------------------
\* read_gtoc
\* ------------------------------------------------------------------------
read_gtoc(a, table, gtoc) ==
    IF ~SignatureAt(a, gtoc).ok THEN Outcome("Io", table)
    ELSE IF SignatureAt(a, gtoc).data # SIG_GTOC THEN Outcome("InvalidFormat", table)
    ELSE Outcome("", table)

\* ------------------------------------------------------------------------
\* read_itoc
\* ------------------------------------------------------------------------
\* read_utf on the bytes of a Data cell: they must begin with @UTF
ReadUtfBlob(blob) ==
    IF ~blob.is_utf
    THEN [ok |-> FALSE, err |-> "InvalidUtfSignature", columns |-> <<>>, rows |-> <<>>,
          num_rows |-> 0]
    ELSE ReadUtf(blob.table)

\* HashMap::insert
Insert(map, k, v) == (k :> v) @@ map

Contains(seq, x) == \E i \in 1 .. Len(seq) : seq[i] = x

\* The size maps and the id list before any row is read
EmptyTables == [size_table |-> <<>>, extract_size_table |-> <<>>, ids |-> <<>>]

\* ids.push(id_val) for DataL (lines 577); guarded by !ids.contains for DataH
\* (lines 603-605)
PushId(ids, id_val, wide) ==
    IF wide /\ Contains(ids, id_val) THEN ids ELSE Append(ids, id_val)

\* The size conversion: as_u16 for DataL, as_u32 for DataH, then as u64
ItocSize(cell, wide) ==
    IF wide THEN unwrap_or(as_u32(cell), 0) ELSE unwrap_or(as_u16(cell), 0)

\* Rows row .. num_rows - 1 of DataL (wide = FALSE) or DataH (wide = TRUE)
RECURSIVE DataRows(_, _, _, _)
DataRows(data_utf, row, wide, t) ==
    IF row >= data_utf.num_rows THEN t
    ELSE IF ~HasCell(data_utf, row, "ID") THEN DataRows(data_utf, row + 1, wide, t)
    ELSE
        LET id_val == unwrap_or(as_u16(get_column_data(data_utf, row, "ID")), 0)
            t1 == IF HasCell(data_utf, row, "FileSize")
                  THEN [t EXCEPT
                           !.size_table =
                               Insert(@, id_val,
                                      ItocSize(get_column_data(data_utf, row, "FileSize"),
                                               wide)),
                           !.ids = PushId(@, id_val, wide)]
                  ELSE t
            t2 == IF HasCell(data_utf, row, "ExtractSize")
                  THEN [t1 EXCEPT
                           !.extract_size_table =
                               Insert(@, id_val,
                                      ItocSize(get_column_data(data_utf, row, "ExtractSize"),
                                               wide))]
                  ELSE t1
        IN  DataRows(data_utf, row + 1, wide, t2)

\* The Data cell of row 0 of the ITOC table under name, when it is one
HasData(utf, name) ==
    HasCell(utf, 0, name) /\ as_data(get_column_data(utf, 0, name)).some

\* The FileEntry of an id at base_offset (lines 625-638)
ItocEntry(id, base_offset, t) ==
    [NewEntry EXCEPT
        !.toc_name = "ITOC",
        !.file_type = "FILE",
        !.file_name = Format04(id),
        !.id = Some(id),
        !.file_offset = base_offset,
        !.file_size = IF id \in DOMAIN t.size_table THEN t.size_table[id] ELSE 0,
        !.extract_size =
            IF id \in DOMAIN t.extract_size_table
            THEN Some(t.extract_size_table[id]) ELSE NoneNum]

\* What base_offset advances by (lines 641-646); al is not 0
Advance(file_size, al) ==
    IF file_size % al > 0 THEN file_size + (al - (file_size % al)) ELSE file_size

\* The loop over the sorted ids from index k on (lines 624-649)
RECURSIVE ItocEntries(_, _, _, _, _, _, _)
ItocEntries(ids, k, base_offset, t, al, checks, table) ==
    IF k > Len(ids) THEN Outcome("", table)
    ELSE
        LET entry == ItocEntry(ids[k], base_offset, t)
        IN  IF al = 0 THEN Outcome("panic", table)
            ELSE IF checks /\ Overflows64(base_offset, Advance(entry.file_size, al))
            THEN Outcome("panic", table)
            ELSE ItocEntries(ids, k + 1, Add64(base_offset, Advance(entry.file_size, al)),
                             t, al, checks, Append(table, entry))

\* read_itoc with file_table = table (ITOC_HDR already pushed)
read_itoc(a, table, itoc, content, al, checks) ==
    LET o == OpenSection(a, itoc, SIG_ITOC, "InvalidFormat")
    IN  IF ~o.ok THEN Outcome(o.err, table)
        ELSE
            LET sec == a.sections[itoc]
                table2 == UpdateHdr(table, S_ITOC_HDR, sec.encrypted, sec.utf_size)
                utf == ReadUtf(sec.table)
            IN  IF ~utf.ok THEN Outcome(utf.err, table2)
                ELSE
                    LET has_l == HasData(utf, "DataL")
                        data_l == IF has_l
                                  THEN ReadUtfBlob(get_column_data(utf, 0, "DataL").v)
                                  ELSE EmptyUtf
                        has_h == HasData(utf, "DataH")
                        data_h == IF has_h
                                  THEN ReadUtfBlob(get_column_data(utf, 0, "DataH").v)
                                  ELSE EmptyUtf
                    IN  IF ~data_l.ok THEN Outcome(data_l.err, table2)
                        ELSE IF ~data_h.ok THEN Outcome(data_h.err, table2)
                        ELSE
                            LET t == DataRows(data_h, 0, TRUE,
                                              DataRows(data_l, 0, FALSE, EmptyTables))
                                ids == SortSeq(t.ids, LAMBDA x, y : x < y)
                            IN  ItocEntries(ids, 1, content, t, al, checks, table2)

\* ------------------------------------------------------------------------
\* read_cpk, one step per section
\* ------------------------------------------------------------------------
\* The offset read from row 0 under name: as_u64().unwrap_or(absent)
HeaderOffset(utf, name, absent) ==
    unwrap_or(as_u64(get_column_data_or_default(utf, 0, name, 3)), absent)

\* The Align read from row 0 (lines 185-188)
HeaderAlign(utf) ==
    unwrap_or(as_u16(get_column_data_or_default(utf, 0, "Align", 1)), 2048)

\* cpk_data after the inserts of lines 132-139: a later column of a name wins
StoreCpkData(data, utf) ==
    IF utf.rows = <<>> THEN data
    ELSE LET names == {utf.columns[j].name : j \in 1 .. Len(utf.columns)}
             last(n) == CHOOSE j \in 1 .. Len(utf.columns) :
                            /\ utf.columns[j].name = n
                            /\ \A k \in 1 .. Len(utf.columns) :
                                   utf.columns[k].name = n => k <= j
         IN  [n \in names \cup DOMAIN data |->
                 IF n \in names THEN utf.rows[1][last(n)].value ELSE data[n]]

\* The CPK_HDR entry (lines 116-124): current_pos is 4, after the signature
CpkHdrEntry(sec) ==
    [NewEntry EXCEPT !.file_name = S_CPK_HDR, !.file_offset = 4 + 16,
                     !.file_size = sec.utf_size, !.encrypted = sec.encrypted,
                     !.file_type = "CPK", !.toc_name = "CPK"]

\* The CONTENT_OFFSET entry (lines 171-177)
ContentEntry(content) ==
    [NewEntry EXCEPT !.file_name = S_CONTENT_OFFSET, !.file_offset = content,
                     !.file_type = "CONTENT", !.toc_name = "CPK"]

\* read_cpk returns r
CpkReturn(r) ==
    /\ cpc' = "returned"
    /\ cret' = r

\* Lines 92-191: the signature, the header table, the offsets
ReadCpkHeader ==
    /\ cpc = "new"
    /\ allocated' = SectionBuffer(archive, 0, SIG_CPK, allocated)
    /\ UNCHANGED <<archive, overflow_checks>>
    /\ LET o == OpenSection(archive, 0, SIG_CPK, "InvalidSignature")
       IN  IF ~o.ok
           THEN /\ CpkReturn(o.err)
                /\ UNCHANGED <<file_table, cpk_data, toc_offset, etoc_offset,
                               itoc_offset, gtoc_offset, content_offset, align>>
           ELSE
               LET sec == archive.sections[0]
                   table1 == Append(file_table, CpkHdrEntry(sec))
                   utf == ReadUtf(sec.table)
                   content == HeaderOffset(utf, "ContentOffset", 0)
               IN  IF ~utf.ok
                   THEN /\ CpkReturn(utf.err)
                        /\ file_table' = table1
                        /\ UNCHANGED <<cpk_data, toc_offset, etoc_offset, itoc_offset,
                                       gtoc_offset, content_offset, align>>
                   ELSE /\ cpc' = "toc"
                        /\ cpk_data' = StoreCpkData(cpk_data, utf)
                        /\ toc_offset' = HeaderOffset(utf, "TocOffset", U64_MAX)
                        /\ etoc_offset' = HeaderOffset(utf, "EtocOffset", U64_MAX)
                        /\ itoc_offset' = HeaderOffset(utf, "ItocOffset", U64_MAX)
                        /\ gtoc_offset' = HeaderOffset(utf, "GtocOffset", U64_MAX)
                        /\ content_offset' = content
                        /\ file_table' = IF content # 0
                                         THEN Append(table1, ContentEntry(content))
                                         ELSE table1
                        /\ align' = HeaderAlign(utf)
                        /\ UNCHANGED cret

\* A section step ends: read_cpk goes on to next, or returns the error
SectionDone(r, next) ==
    /\ file_table' = r.table
    /\ IF r.err # "" THEN CpkReturn(r.err)
       ELSE IF next = "returned" THEN CpkReturn("Ok")
       ELSE cpc' = next /\ UNCHANGED cret

\* Lines 193-204
ReadTocSection ==
    /\ cpc = "toc"
    /\ allocated' = SectionBuffer(archive, toc_offset, SIG_TOC, allocated)
    /\ UNCHANGED <<archive, overflow_checks, cpk_data, toc_offset, etoc_offset,
                   itoc_offset, gtoc_offset, content_offset, align>>
    /\ IF toc_offset = U64_MAX THEN SectionDone(Outcome("", file_table), "etoc")
       ELSE SectionDone(read_toc(archive,
                                 Append(file_table, HdrEntry(S_TOC_HDR, toc_offset)),
                                 toc_offset, content_offset, overflow_checks), "etoc")

\* Lines 206-217
ReadEtocSection ==
    /\ cpc = "etoc"
    /\ allocated' = SectionBuffer(archive, etoc_offset, SIG_ETOC, allocated)
    /\ UNCHANGED <<archive, overflow_checks, cpk_data, toc_offset, etoc_offset,
                   itoc_offset, gtoc_offset, content_offset, align>>
    /\ IF etoc_offset = U64_MAX THEN SectionDone(Outcome("", file_table), "itoc")
       ELSE SectionDone(read_etoc(archive,
                                  Append(file_table, HdrEntry(S_ETOC_HDR, etoc_offset)),
                                  etoc_offset), "itoc")

\* Lines 219-230
ReadItocSection ==
    /\ cpc = "itoc"
    /\ allocated' = SectionBuffer(archive, itoc_offset, SIG_ITOC, allocated)
    /\ UNCHANGED <<archive, overflow_checks, cpk_data, toc_offset, etoc_offset,
                   itoc_offset, gtoc_offset, content_offset, align>>
    /\ IF itoc_offset = U64_MAX THEN SectionDone(Outcome("", file_table), "gtoc")
       ELSE SectionDone(read_itoc(archive,
                                  Append(file_table, HdrEntry(S_ITOC_HDR, itoc_offset)),
                                  itoc_offset, content_offset, align, overflow_checks),
                        "gtoc")

\* Lines 232-245
ReadGtocSection ==
    /\ cpc = "gtoc"
    /\ UNCHANGED allocated
    /\ UNCHANGED <<archive, overflow_checks, cpk_data, toc_offset, etoc_offset,
                   itoc_offset, gtoc_offset, content_offset, align>>
    /\ IF gtoc_offset = U64_MAX THEN SectionDone(Outcome("", file_table), "returned")
       ELSE SectionDone(read_gtoc(archive,
                                  Append(file_table, HdrEntry(S_GTOC_HDR, gtoc_offset)),
                                  gtoc_offset), "returned")

\* ------------------------------------------------------------------------
\* extract_file, extract_all, extract_single_file
\* ------------------------------------------------------------------------
\* A comparison of the strings as they are
to_lowercase_Exact(str) == str

\* str::to_lowercase on the ASCII letters
to_lowercase(str) ==
    [i \in 1 .. Len(str) |-> IF str[i] >= 65 /\ str[i] <= 90 THEN str[i] + 32 ELSE str[i]]

\* dir + "/" + file_name, or file_name alone
FullPath(e) ==
    IF e.dir_name.some THEN e.dir_name.v \o <<47>> \o e.file_name ELSE e.file_name

IsFile(e) == e.file_type = "FILE"

\* The entries extract_file selects (lines 684-695)
Matching(table, tgt) ==
    LET Hit(e) == IsFile(e) /\ to_lowercase(FullPath(e)) = to_lowercase(tgt)
    IN  SelectSeq(table, Hit)

\* The arguments extract_file is called with
Targets == {<<97, 46, 98, 105, 110>>, <<65, 46, 66, 73, 78>>, <<48, 48, 48, 49>>,
            <<122>>, <<68, 47, 65, 46, 66, 73, 78>>}

\* extract_file (lines 683-702): the selection, FileNotFound, the open
ExtractFile ==
    /\ cpc = "returned"
    /\ cret = "Ok"
    /\ xpc = "idle"
    /\ \E tgt \in Targets :
        /\ target' = tgt
        /\ IF Matching(file_table, tgt) = <<>>
           THEN xpc' = "returned" /\ xret' = "FileNotFound" /\ UNCHANGED xqueue
           ELSE xpc' = "files" /\ xqueue' = Matching(file_table, tgt) /\ UNCHANGED xret
    /\ UNCHANGED <<laylaVars, cpkVars, xpath, created_dirs, written, allocated, concVars>>

\* extract_all (lines 712-721): every FILE entry
ExtractAll ==
    /\ cpc = "returned"
    /\ cret = "Ok"
    /\ xpc = "idle"
    /\ xpc' = "files"
    /\ xqueue' = SelectSeq(file_table, IsFile)
    /\ UNCHANGED <<laylaVars, cpkVars, xret, target, xpath, created_dirs, written,
                   allocated, concVars>>

\* The check extract_single_file makes before it decompresses (lines 768-787)
CrilaylaPrecheckFails(data) ==
    /\ Len(data) >= 16
    /\ \/ data[16] >= 128
       \/ I32LE(data[13], data[14], data[15], data[16]) + PREFIX + PLAIN_HEADER > Len(data)

\* One pass of the loop over the entries: extract_single_file on the next one,
\* up to its return or its call of decompress_crilayla
\* vec![0u8; entry.file_size as usize] after the seek to entry.file_offset
\* (lines 746-749)
PayloadBuffer(a, entry) ==
    Buffer("payload", entry.file_size,
           IF entry.file_offset > a.file_size THEN 0 ELSE a.file_size - entry.file_offset)

ExtractSingleFile ==
    /\ xpc = "files"
    /\ UNCHANGED <<cpkVars, target, concVars>>
    /\ IF xqueue = <<>>
       THEN /\ xpc' = "returned"
            /\ xret' = "Ok"
            /\ UNCHANGED <<laylaVars, xqueue, xpath, created_dirs, written, allocated>>
       ELSE
        LET entry == Head(xqueue)
            rd == ReadExact(archive, entry.file_offset, entry.file_size)
        IN  /\ xqueue' = Tail(xqueue)
            /\ xpath' = FullPath(entry)
            /\ created_dirs' = IF entry.dir_name.some
                               THEN created_dirs \cup {entry.dir_name.v}
                               ELSE created_dirs
            /\ allocated' = IF entry.file_size = 0 THEN allocated
                            ELSE PayloadBuffer(archive, entry)
            /\ IF entry.file_size = 0
               THEN UNCHANGED <<laylaVars, xpc, xret, written>>
               ELSE IF ~rd.ok
               THEN /\ xpc' = "returned"
                    /\ xret' = "Io"
                    /\ UNCHANGED <<laylaVars, written>>
               ELSE IF Len(rd.data) >= 8 /\ SubSeq(rd.data, 1, 8) = Magic
               THEN IF CrilaylaPrecheckFails(rd.data)
                    THEN /\ xpc' = "returned"
                         /\ xret' = "Compression"
                         /\ UNCHANGED <<laylaVars, written>>
                    ELSE /\ xpc' = "decompress"
                         /\ input' = rd.data
                         /\ lpc' = "entry"
                         /\ lret' = "none"
                         /\ UNCHANGED <<result, input_offset, bit_pool, bits_left,
                                        bytes_output, backreference_offset,
                                        backreference_length, copy_i, xret, written>>
               ELSE /\ written' = Append(written, [path |-> FullPath(entry),
                                                   data |-> rd.data])
                    /\ UNCHANGED <<laylaVars, xpc, xret>>

\* decompress_crilayla has returned to extract_single_file (lines 789-796)
ExtractDecompressed ==
    /\ xpc = "decompress"
    /\ lpc = "returned"
    /\ lpc' = "idle"
    /\ IF lret = "Ok"
       THEN /\ written' = Append(written, [path |-> xpath, data |-> result])
            /\ xpc' = "files"
            /\ UNCHANGED xret
       ELSE /\ xpc' = "returned"
            /\ xret' = lret
            /\ UNCHANGED written
    /\ UNCHANGED <<cpkVars, input, lret, result, input_offset, bit_pool, bits_left,
                   bytes_output, backreference_offset, backreference_length, copy_i,
                   target, xqueue, xpath, created_dirs, allocated, concVars>>

\* ------------------------------------------------------------------------
\* The archives read_cpk is run on
\* ------------------------------------------------------------------------
MaxTocRows == 2
MaxDataLRows == 2
MaxDataHRows == 1

\* Column flags: per-row u16, u32, u64, string, data; constant u64; a per-row
\* column of the unassigned type 9
F_U16 == 82
F_U32 == 84
F_U64 == 86
F_STR == 90
F_DATA == 91
F_CONST64 == 54
F_BAD == 89

Col(flags, name) == [flags |-> flags, name |-> name]

\* The bytes of the rows of a table whose row_length is that of its columns
RowBytes(columns, rows) == Len(rows) * RowCursor(columns, Len(columns) + 1)

\* The blob of columns and rows: the header, the column records, the rows, then
\* a string heap of 8 bytes for each column name; the data heap starts at its
\* end (the bytes of blob cells are not counted). The offset fields are
\* relative to byte 8.
Table(columns, rows) ==
    [columns |-> columns, rows |-> rows,
     is_utf |-> TRUE,
     rows_offset |-> HEADER_END + COLUMN_RECORD * Len(columns) - 8,
     strings_offset |-> HEADER_END + COLUMN_RECORD * Len(columns)
                            + RowBytes(columns, rows) - 8,
     data_offset |-> HEADER_END + (COLUMN_RECORD + 8) * Len(columns)
                            + RowBytes(columns, rows) - 8,
     row_length |-> RowCursor(columns, Len(columns) + 1),
     len |-> HEADER_END + (COLUMN_RECORD + 8) * Len(columns) + RowBytes(columns, rows)]

BlobSize(t) == t.len

Section(sig, table) ==
    [sig |-> sig, utf_size |-> BlobSize(table), encrypted |-> FALSE,
     utf_sig_ok |-> TRUE, table |-> table]

NoMap == [x \in {} |-> <<>>]

\* Sequences over set of length 0 .. n
SeqsUpTo(set, n) == UNION {[1 .. k -> set] : k \in 0 .. n}

\* The columns of a one-row table from <<flags, name, value>> triples
OneRow(cells) ==
    Table([j \in 1 .. Len(cells) |-> Col(cells[j][1], cells[j][2])],
          <<[j \in 1 .. Len(cells) |-> cells[j][3]]>>)

\* Where the sub-tables and the payloads of the generated archives are
TOC_AT == 2048
ETOC_AT == 3072
ITOC_AT == 2048
GTOC_AT == 3584
CONTENT_AT == 4096
LAYLA_AT == 8192
ARCHIVE_SIZE == 16384

N_A_BIN == <<97, 46, 98, 105, 110>>
N_A_BIN_UPPER == <<65, 46, 66, 73, 78>>
N_Z == <<122>>
N_DIR == <<100>>

DEADBEEF == <<222, 173, 190, 239>>

\* A CRILAYLA payload: three literals and a match of length 3
LaylaPayload == EncodedBlob(<<Lit(1), Lit(2), Lit(3), Ref(0, 3)>>)

Payloads == (CONTENT_AT :> DEADBEEF) @@ (LAYLA_AT :> LaylaPayload)

\* The ContentOffset cell of a header: none, 0, 0x1000 as u64, a constant
\* column, 0x1000 as u32, a value 3 below the largest u64
ContentCells ==
    {<<>>, <<<<F_U64, "ContentOffset", 0>>>>, <<<<F_U64, "ContentOffset", CONTENT_AT>>>>,
     <<<<F_CONST64, "ContentOffset", 0>>>>, <<<<F_U32, "ContentOffset", CONTENT_AT>>>>,
     <<<<F_U64, "ContentOffset", U64_MAX - 3>>>>}

\* The Align cell of a header: none, 4, 0, 0x800, 4 as u32, a constant column
AlignCells ==
    {<<>>, <<<<F_U16, "Align", 4>>>>, <<<<F_U16, "Align", 0>>>>,
     <<<<F_U16, "Align", 2048>>>>, <<<<F_U32, "Align", 4>>>>,
     <<<<F_CONST64, "Align", 0>>>>}

FilesCell == <<<<F_U32, "Files", 0>>>>

U64(name, v) == <<<<F_U64, name, v>>>>

Header(cells) == Section(SIG_CPK, OneRow(cells))

Archive(sections, payloads) ==
    [file_size |-> ARCHIVE_SIZE, sections |-> sections, payloads |-> payloads]

\* Archives with a header and no sub-table
HeaderArchives ==
    {Archive(0 :> Header(FilesCell \o c \o al), Payloads) :
        c \in ContentCells, al \in AlignCells}

\* ---- archives with a TOC
\* A TOC row: name, FileSize, ExtractSize, FileOffset
TocRowSet ==
    {<<N_A_BIN, 4, 4, 0>>,
     <<N_A_BIN_UPPER, 4, 4, CONTENT_AT - TOC_AT>>,
     <<N_Z, Len(LaylaPayload), 6, LAYLA_AT - TOC_AT>>}

\* The flags of FileSize, ExtractSize (0 for no such column) and FileOffset, and
\* whether there is a DirName column
TocShapes ==
    {<<F_U64, F_U64, F_U64, FALSE>>, <<F_U32, F_U64, F_U64, FALSE>>,
     <<F_U64, F_U32, F_U64, FALSE>>, <<F_U64, F_U64, F_U32, FALSE>>,
     <<F_U64, 0, F_U64, FALSE>>, <<F_U64, F_U64, F_U64, TRUE>>}

TocTable(shape, rows) ==
    LET dir == IF shape[4] THEN <<Col(F_STR, "DirName")>> ELSE <<>>
        ext == IF shape[2] # 0 THEN <<Col(shape[2], "ExtractSize")>> ELSE <<>>
        dirv == IF shape[4] THEN <<N_DIR>> ELSE <<>>
    IN  Table(dir \o <<Col(F_STR, "FileName"), Col(shape[1], "FileSize")>> \o ext
                  \o <<Col(shape[3], "FileOffset")>>,
              [i \in 1 .. Len(rows) |->
                  dirv \o <<rows[i][1], rows[i][2]>>
                       \o (IF shape[2] # 0 THEN <<rows[i][3]>> ELSE <<>>)
                       \o <<rows[i][4]>>])

TocContentCells ==
    {<<>>, <<<<F_U64, "ContentOffset", 0>>>>, <<<<F_U64, "ContentOffset", CONTENT_AT>>>>}

TocArchives ==
    {Archive((0 :> Header(U64("TocOffset", TOC_AT) \o c))
                 @@ (TOC_AT :> Section(SIG_TOC, TocTable(shape, rows))),
             Payloads) :
        c \in TocContentCells, shape \in TocShapes,
        rows \in SeqsUpTo(TocRowSet, MaxTocRows)}

\* ---- archives whose TOC lies below and above 0x800, with a ContentOffset
\* below, between and above, and the all-ones ContentOffset
TOC_LOW == 512
TOC_HIGH == 3072

PlacedContents == {U64_MAX, 256, 1024, CONTENT_AT}

PlacedArchives ==
    {Archive((0 :> Header(U64("TocOffset", at) \o U64("ContentOffset", c)))
                 @@ (at :> Section(SIG_TOC, TocTable(<<F_U64, F_U64, F_U64, FALSE>>,
                                                     <<<<N_A_BIN, 4, 4, 0>>>>))),
             Payloads) :
        at \in {TOC_LOW, TOC_HIGH}, c \in PlacedContents}

\* ---- archives with an ITOC
\* A DataL or DataH row: ID, FileSize, ExtractSize
DataLRowSet == {<<1, 3, 3>>, <<1, 5, 9>>, <<2, 5, 5>>}

DataHRowSet == {<<2, 7, 7>>, <<3, 70000, 70000>>}

DataTable(size_flags, rows) ==
    Table(<<Col(F_U16, "ID"), Col(size_flags, "FileSize"),
            Col(size_flags, "ExtractSize")>>, rows)

UtfBlob(table) == [is_utf |-> TRUE, table |-> table]

ItocTable(rows_l, rows_h) ==
    OneRow(<<<<F_DATA, "DataL", UtfBlob(DataTable(F_U16, rows_l))>>,
             <<F_DATA, "DataH", UtfBlob(DataTable(F_U32, rows_h))>>>>)

ItocContentCells ==
    {<<>>, <<<<F_U64, "ContentOffset", 0>>>>,
     <<<<F_U64, "ContentOffset", U64_MAX - 3>>>>}

ItocAlignCells == {<<>>, <<<<F_U16, "Align", 4>>>>, <<<<F_U16, "Align", 0>>>>}

ItocArchives ==
    {Archive((0 :> Header(U64("ItocOffset", ITOC_AT) \o c \o al))
                 @@ (ITOC_AT :> Section(SIG_ITOC, ItocTable(rows_l, rows_h))),
             NoMap) :
        c \in ItocContentCells, al \in ItocAlignCells,
        rows_l \in SeqsUpTo(DataLRowSet, MaxDataLRows),
        rows_h \in SeqsUpTo(DataHRowSet, MaxDataHRows)}

\* ---- archives with every sub-table, and damaged archives
EtocTable(n) == Table(<<Col(F_STR, "LocalDir")>>, [i \in 1 .. n |-> <<N_DIR>>])

FullHeader ==
    Header(U64("TocOffset", TOC_AT) \o U64("EtocOffset", ETOC_AT)
               \o U64("GtocOffset", GTOC_AT) \o U64("ContentOffset", CONTENT_AT))

PlainToc == Section(SIG_TOC, TocTable(<<F_U64, F_U64, F_U64, FALSE>>,
                                      <<<<N_A_BIN, 4, 4, 0>>, <<N_Z, 4, 4, 4>>>>))

FullArchives ==
    {Archive((0 :> FullHeader) @@ (TOC_AT :> PlainToc)
                 @@ (ETOC_AT :> Section(SIG_ETOC, EtocTable(n)))
                 @@ (GTOC_AT :> Section(gsig, EtocTable(0))),
             Payloads) :
        n \in 0 .. 3, gsig \in {SIG_GTOC, SIG_TOC}}

\* ---- archives whose TOC holds a file named like a pseudo-entry, with an ETOC
\* and an ITOC read after it (the ITOC is where other archives have the GTOC)
PseudoNames == {S_TOC_HDR, S_ETOC_HDR, S_ITOC_HDR}

NamedArchives ==
    {Archive((0 :> Header(U64("TocOffset", TOC_AT) \o U64("EtocOffset", ETOC_AT)
                              \o U64("ItocOffset", GTOC_AT)
                              \o U64("ContentOffset", CONTENT_AT)))
                 @@ (TOC_AT :> Section(SIG_TOC, TocTable(<<F_U64, F_U64, F_U64, FALSE>>,
                                                         <<<<name, 4, 4, 0>>>>)))
                 @@ (ETOC_AT :> Section(SIG_ETOC, EtocTable(1)))
                 @@ (GTOC_AT :> Section(SIG_ITOC, ItocTable(<<>>, <<>>))),
             Payloads) :
        name \in PseudoNames}

DamagedArchives ==
    {Archive(0 :> Section(SIG_TOC, OneRow(FilesCell)), NoMap),
     [Archive(0 :> Header(FilesCell), NoMap) EXCEPT !.file_size = 2],
     Archive(0 :> [Header(FilesCell) EXCEPT !.utf_size = ARCHIVE_SIZE], NoMap),
     Archive(0 :> [Header(FilesCell) EXCEPT !.utf_size = -1], NoMap),
     Archive(0 :> [Header(FilesCell) EXCEPT !.utf_sig_ok = FALSE, !.encrypted = TRUE],
             NoMap),
     Archive(0 :> [Header(FilesCell) EXCEPT !.encrypted = TRUE], NoMap),
     Archive(0 :> Header(<<<<F_BAD, "Files", 0>>>>), NoMap),
     Archive(0 :> Header(U64("TocOffset", TOC_AT)), NoMap),
     Archive(0 :> Header(U64("TocOffset", ARCHIVE_SIZE)), NoMap),
     Archive(0 :> Header(U64("EtocOffset", ETOC_AT)), NoMap),
     Archive(0 :> Header(U64("ItocOffset", ITOC_AT)), NoMap),
     Archive((0 :> Header(U64("TocOffset", TOC_AT)))
                 @@ (TOC_AT :> Section(SIG_TOC, OneRow(<<<<F_BAD, "FileSize", 0>>>>))),
             NoMap),
     Archive((0 :> Header(U64("ItocOffset", ITOC_AT)))
                 @@ (ITOC_AT :> Section(SIG_ITOC,
                        OneRow(<<<<F_DATA, "DataL",
                                   [is_utf |-> FALSE, table |-> Table(<<>>, <<>>)]>>>>))),
             NoMap)}

Archives == HeaderArchives \cup TocArchives \cup PlacedArchives \cup ItocArchives
                \cup FullArchives \cup NamedArchives \cup DamagedArchives

\* ------------------------------------------------------------------------
\* main: Cpk::new(), read_cpk, then extract_all or extract_file
\* ------------------------------------------------------------------------
\* Cpk::new() (lines 74-89), the archive file, the build
InitOn(archives) ==
    /\ PureIdle
    /\ archive \in archives
    /\ overflow_checks \in BOOLEAN
    /\ cpc = "new"
    /\ cret = "none"
    /\ file_table = <<>>
    /\ cpk_data = <<>>
    /\ toc_offset = U64_MAX
    /\ etoc_offset = U64_MAX
    /\ itoc_offset = U64_MAX
    /\ gtoc_offset = U64_MAX
    /\ content_offset = 0
    /\ align = 0
    /\ input = <<>>
    /\ lpc = "idle"
    /\ lret = "none"
    /\ result = <<>>
    /\ input_offset = 0
    /\ bit_pool = 0
    /\ bits_left = 0
    /\ bytes_output = 0
    /\ backreference_offset = 0
    /\ backreference_length = 0
    /\ copy_i = 0
    /\ xpc = "idle"
    /\ xret = "none"
    /\ target = <<>>
    /\ xqueue = <<>>
    /\ xpath = <<>>
    /\ created_dirs = {}
    /\ written = <<>>
    /\ allocated = NoBuffer
    /\ ConcIdle

Init == InitOn(Archives)

Next ==
    \/ ReadCpkHeader /\ UNCHANGED <<laylaVars, extractCtl, concVars, pureVars>>
    \/ ReadTocSection /\ UNCHANGED <<laylaVars, extractCtl, concVars, pureVars>>
    \/ ReadEtocSection /\ UNCHANGED <<laylaVars, extractCtl, concVars, pureVars>>
    \/ ReadItocSection /\ UNCHANGED <<laylaVars, extractCtl, concVars, pureVars>>
    \/ ReadGtocSection /\ UNCHANGED <<laylaVars, extractCtl, concVars, pureVars>>
    \/ ExtractFile /\ UNCHANGED pureVars
    \/ ExtractAll /\ UNCHANGED pureVars
    \/ ExtractSingleFile /\ UNCHANGED pureVars
    \/ ExtractDecompressed /\ UNCHANGED pureVars
    \/ LaylaEnter /\ UNCHANGED <<cpkVars, extractVars, pureVars>>
    \/ DecodeToken /\ UNCHANGED <<cpkVars, extractVars, pureVars>>
    \/ CopyByte /\ UNCHANGED <<cpkVars, extractVars, pureVars>>

Spec == Init /\ [][Next]_vars

\* ------------------------------------------------------------------------
\* Claims about read_cpk and extraction
\* ------------------------------------------------------------------------
\* The header table and the TOC table as read_utf returns them
HeaderUtf == ReadUtf(archive.sections[0].table)

TocUtf == ReadUtf(archive.sections[TOC_AT].table)

\* Row row of utf has the cell c under name
CellIs(utf, row, name, c) ==
    HasCell(utf, row, name) /\ get_column_data(utf, row, name) = c

\* The archive of the scenario: TocOffset 0x800, ContentOffset 0x1000, one TOC
\* row a.bin of FileSize 4 and FileOffset 0 (64-bit cells), DE AD BE EF at 0x1000
C5_Scenario ==
    /\ TOC_AT \in DOMAIN archive.sections
    /\ CellIs(HeaderUtf, 0, "TocOffset", Cell("UInt64", TOC_AT))
    /\ CellIs(HeaderUtf, 0, "ContentOffset", Cell("UInt64", CONTENT_AT))
    /\ TocUtf.ok
    /\ TocUtf.num_rows = 1
    /\ ~HasCell(TocUtf, 0, "DirName")
    /\ CellIs(TocUtf, 0, "FileName", Cell("String", N_A_BIN))
    /\ CellIs(TocUtf, 0, "FileSize", Cell("UInt64", 4))
    /\ CellIs(TocUtf, 0, "FileOffset", Cell("UInt64", 0))
    /\ ReadExact(archive, CONTENT_AT, 4).data = DEADBEEF

\* extract_file("a.bin") has returned
C5_Extracted == xpc = "returned" /\ target = N_A_BIN

\* C5, as the code has it: in the scenario, with FileSize and FileOffset stored
\* as 64-bit cells, extract_file("a.bin") returns Ok and writes one file a.bin
\* holding the 4 bytes at archive offset 0x800 = FileOffset + add_offset, which
\* are the TOC signature; the bytes at 0x1000 are not read.
C5_ReadsAtTocBase ==
    (C5_Scenario /\ C5_Extracted) =>
        /\ xret = "Ok"
        /\ written = <<[path |-> N_A_BIN, data |-> ReadExact(archive, TOC_AT, 4).data]>>
        /\ written[1].data = SIG_TOC

C5_Witness ==
    /\ C5_Scenario
    /\ C5_Extracted
    /\ xret = "Ok"
    /\ Len(written) = 1

\* C5, as stated: in the scenario extract_file("a.bin") reads the payload at
\* 0x1000 and writes exactly DE AD BE EF.
C5_ReadsAtContent ==
    (C5_Scenario /\ C5_Extracted) =>
        written = <<[path |-> N_A_BIN, data |-> DEADBEEF]>>

\* The entries of a sub-table, in table order
EntriesOf(toc_name) ==
    LET From(e) == e.toc_name = toc_name
    IN  SelectSeq(file_table, From)

\* The number stored in row i (from 1) of table t under name; the column is
\* there and is a per-row integer column
IsIntColumn(t, name) ==
    \E j \in 1 .. Len(t.columns) :
        /\ t.columns[j].name = name
        /\ StorageFlag(t.columns[j].flags) = STORAGE_PERROW
        /\ ColumnType(t.columns[j].flags) \in 0 .. 7

StoredNumber(t, i, name) ==
    t.rows[i][CHOOSE j \in 1 .. Len(t.columns) : t.columns[j].name = name]

\* read_toc has read every row of the TOC
TocRead ==
    /\ cpc \in {"etoc", "itoc", "gtoc", "returned"}
    /\ toc_offset \in DOMAIN archive.sections
    /\ ReadUtf(archive.sections[toc_offset].table).ok
    /\ Len(EntriesOf("TOC")) = Len(archive.sections[toc_offset].table.rows)

\* C6: every TOC row's entry has file_size = the FileSize cell's number,
\* extract_size = the ExtractSize cell's number when there is one, file_offset =
\* the FileOffset cell's number + add_offset, whatever the column's width.
C6_TocFieldsAnyWidth ==
    TocRead =>
        LET t == archive.sections[toc_offset].table
            add_offset == add_offset_of(toc_offset, content_offset)
        IN  \A i \in 1 .. Len(t.rows) :
                /\ IsIntColumn(t, "FileSize") =>
                       EntriesOf("TOC")[i].file_size = StoredNumber(t, i, "FileSize")
                /\ IsIntColumn(t, "ExtractSize") =>
                       EntriesOf("TOC")[i].extract_size =
                           Some(StoredNumber(t, i, "ExtractSize"))
                /\ IsIntColumn(t, "FileOffset") =>
                       EntriesOf("TOC")[i].file_offset =
                           StoredNumber(t, i, "FileOffset") + add_offset

\* Row 0 of the header table has no value under name: no such column, or a
\* column that is not stored per row
HeaderLacks(name) ==
    \/ ~HasCell(HeaderUtf, 0, name)
    \/ get_column_data(HeaderUtf, 0, name).kind = "None"

\* read_cpk has read the header and is about to go through the sub-tables
HeaderRead == cpc = "toc"

NoSubTables ==
    /\ toc_offset = U64_MAX
    /\ etoc_offset = U64_MAX
    /\ itoc_offset = U64_MAX
    /\ gtoc_offset = U64_MAX

HasContentEntry == \E k \in 1 .. Len(file_table) : file_table[k].file_type = "CONTENT"

\* C7: an absent ContentOffset reads as 0; the CONTENT_OFFSET entry is there
\* only when ContentOffset # 0; a header with no sub-tables and ContentOffset 0
\* or absent gives a file_table of exactly one entry, CPK_HDR.
C7_AbsentContentIsZero ==
    HeaderRead =>
        /\ HeaderLacks("ContentOffset") => content_offset = 0
        /\ HasContentEntry <=> content_offset # 0
        /\ (NoSubTables /\ (HeaderLacks("ContentOffset")
                               \/ CellIs(HeaderUtf, 0, "ContentOffset", Cell("UInt64", 0))))
               => (Len(file_table) = 1 /\ file_table[1].file_name = S_CPK_HDR)

\* C8: with no Align value in row 0 of the header, the alignment read_itoc is
\* called with is 0x800.
C8_AbsentAlignIs800 ==
    (cpc = "itoc" /\ itoc_offset # U64_MAX /\ HeaderLacks("Align")) => align = 2048

\* ceil(a / b) * b
RoundUp(a, b) == ((a + b - 1) \div b) * b

\* C9: the first ITOC entry is at content_offset, and each next one is
\* ceil(file_size / align) * align after the one before it.
C9_ItocOffsetsAligned ==
    LET es == EntriesOf("ITOC")
    IN  /\ es # <<>> => es[1].file_offset = content_offset
        /\ \A k \in 1 .. Len(es) - 1 :
               es[k + 1].file_offset - es[k].file_offset = RoundUp(es[k].file_size, align)

\* The IDs stored in the rows of the DataL or DataH table of the ITOC
StoredIds(name) ==
    LET t == archive.sections[itoc_offset].table
        j == CHOOSE j \in 1 .. Len(t.columns) : t.columns[j].name = name
        d == t.rows[1][j].table
    IN  IF \E c \in 1 .. Len(t.columns) : t.columns[c].name = name
        THEN {StoredNumber(d, i, "ID") : i \in 1 .. Len(d.rows)}
        ELSE {}

\* read_cpk has returned Ok after reading an ITOC
ItocRead ==
    /\ cpc = "returned"
    /\ cret = "Ok"
    /\ itoc_offset # U64_MAX

\* C10: one ITOC entry per distinct ID of DataL and DataH, in strictly ascending
\* ID order, named by the zero-padded 4-digit ID.
C10_OneEntryPerId ==
    ItocRead =>
        LET es == EntriesOf("ITOC")
        IN  /\ \A k \in 1 .. Len(es) - 1 : es[k].id.v < es[k + 1].id.v
            /\ {es[k].id.v : k \in 1 .. Len(es)} = StoredIds("DataL") \cup StoredIds("DataH")
            /\ \A k \in 1 .. Len(es) :
                   es[k].id.some /\ es[k].file_name = Format04(es[k].id.v)

\* ========================================================================
\* read_utf_data's signature check and decrypt_utf, on the bytes of a blob
\* ========================================================================
\* b"@UTF"
SIG_UTF == <<64, 85, 84, 70>>

\* 0x0000655f and 0x00004115
KEY_SEED == 25951
KEY_MULT == 16661

\* A u32 is kept as its two 16-bit halves
U32Halves(n) == [hi |-> n \div 65536, lo |-> n % 65536]

\* m.wrapping_mul(t), for t below 2^15
wrapping_mul(m, t) ==
    [lo |-> (m.lo * t) % 65536,
     hi |-> (m.hi * t + (m.lo * t) \div 65536) % 65536]

\* The sum of a and b modulo 256
AddByte(a, b) == (a + b) % 256

\* a ^ b on the low bits bits
RECURSIVE XorBits(_, _, _)
XorBits(a, b, bits) ==
    IF bits = 0 THEN 0
    ELSE (((a % 2) + (b % 2)) % 2) + 2 * XorBits(a \div 2, b \div 2, bits - 1)

\* byte ^ key
XorByte(a, b) == XorBits(a, b, 8)

\* decrypt_utf (lines 340-351)
decrypt_utf(inp) ==
    LET m[i \in 0 .. Len(inp)] ==
            IF i = 0 THEN U32Halves(KEY_SEED) ELSE wrapping_mul(m[i - 1], KEY_MULT)
    IN  [i \in 1 .. Len(inp) |-> XorByte(inp[i], m[i - 1].lo % 256)]

\* The packet begins with @UTF
BeginsWithUtf(packet) == Len(packet) >= 4 /\ SubSeq(packet, 1, 4) = SIG_UTF

\* Lines 316-337 of read_utf_data on the bytes read
ReadUtfDataCheck ==
    /\ dpc = "read_utf_data"
    /\ dpc' = "returned"
    /\ is_enc' = ~BeginsWithUtf(raw_packet)
    /\ utf_packet' = IF ~BeginsWithUtf(raw_packet) THEN decrypt_utf(raw_packet)
                     ELSE raw_packet
    /\ dret' = IF BeginsWithUtf(utf_packet') THEN "Ok" ELSE "InvalidFormat"
    /\ UNCHANGED <<raw_packet, dcount>>

\* ---- the inputs
MaxPacketLen == 4
MaxTailLen == 2
MaxDecrypts == 2

PacketBytes == {0, 31, 64, 255}

UtfBlobs == {SIG_UTF \o tail : tail \in SeqsUpTo({0, 255}, MaxTailLen)}

Packets ==
    SeqsUpTo(PacketBytes, MaxPacketLen) \cup UtfBlobs
        \cup {decrypt_utf(b) : b \in UtfBlobs}

\* One more application of decrypt_utf to the buffer
DecryptUtf ==
    /\ dpc = "decrypt"
    /\ dcount < MaxDecrypts
    /\ dcount' = dcount + 1
    /\ utf_packet' = decrypt_utf(utf_packet)
    /\ UNCHANGED <<raw_packet, is_enc, dpc, dret>>

TableIdle ==
    /\ utf_blob = <<>>
    /\ utf_parsed = <<>>
    /\ upc = "idle"

LaylaIdle ==
    /\ input = <<>>
    /\ lpc = "idle"
    /\ lret = "none"
    /\ result = <<>>
    /\ input_offset = 0
    /\ bit_pool = 0
    /\ bits_left = 0
    /\ bytes_output = 0
    /\ backreference_offset = 0
    /\ backreference_length = 0
    /\ copy_i = 0

PacketInit ==
    /\ CpkIdle
    /\ bits_call = NoCall
    /\ LaylaIdle
    /\ TableIdle
    /\ raw_packet \in Packets
    /\ utf_packet = raw_packet
    /\ is_enc = FALSE
    /\ dpc \in {"read_utf_data", "decrypt"}
    /\ dret = "none"
    /\ dcount = 0

PacketNext ==
    \/ ReadUtfDataCheck /\ UNCHANGED <<laylaVars, cpkVars, extractVars, tableVars, bits_call>>
    \/ DecryptUtf /\ UNCHANGED <<laylaVars, cpkVars, extractVars, tableVars, bits_call>>

PacketSpec == PacketInit /\ [][PacketNext]_vars

\* C11: is_encrypted is true exactly when the raw blob does not begin with
\* @UTF, and then the blob returned is the deobfuscated one; a blob that does
\* not begin with @UTF after deobfuscation fails with InvalidUtfSignature.
C11_EncryptedFlagAndError ==
    (dpc = "returned") =>
        /\ dret = "Ok" => /\ is_enc <=> ~BeginsWithUtf(raw_packet)
                          /\ is_enc => utf_packet = decrypt_utf(raw_packet)
                          /\ ~is_enc => utf_packet = raw_packet
        /\ (~BeginsWithUtf(raw_packet) /\ ~BeginsWithUtf(decrypt_utf(raw_packet)))
               => dret = "InvalidUtfSignature"

\* The low byte of 0x655F * 0x4115^i: the key of byte i (from 0)
RECURSIVE KeyByte(_)
KeyByte(i) == IF i = 0 THEN 95 ELSE (KeyByte(i - 1) * 21) % 256

\* C12: decrypt_utf keeps the length, XORs byte i with the low byte of
\* 0x655F * 0x4115^i mod 2^32, and applied twice gives the input back.
C12_DecryptSelfInverse ==
    (dpc = "decrypt") =>
        /\ Len(utf_packet) = Len(raw_packet)
        /\ (dcount % 2 = 0) => utf_packet = raw_packet
        /\ (dcount % 2 = 1) =>
               \A i \in 1 .. Len(raw_packet) :
                   utf_packet[i] = XorBits(raw_packet[i], KeyByte(i - 1), 8)

C12_Witness ==
    /\ dpc = "decrypt"
    /\ dcount = 2
    /\ Len(raw_packet) >= 4
    /\ decrypt_utf(raw_packet) # raw_packet

\* ========================================================================
\* Utf::read_utf on blobs, well-formed and not
\* ========================================================================
MaxColumns == 2
MaxRows == 2

\* Column flags: per-row u8; constant storage with the unassigned type 9; the
\* unassigned storage mode 0x20
F_U8 == 80
F_CONST_BAD == 57
F_MODE_BAD == 38

BlobColumnFlags ==
    {F_U8, F_U16, F_U64, F_CONST64, STORAGE_ZERO, F_BAD, F_CONST_BAD, F_MODE_BAD}

ColumnName(j) == IF j = 1 THEN "c1" ELSE IF j = 2 THEN "c2" ELSE "c3"

\* The well-formed blobs: numeric columns, every stored number 0
PlainTables ==
    {Table([j \in 1 .. Len(fl) |-> Col(fl[j], ColumnName(j))],
           [i \in 1 .. n |-> [j \in 1 .. Len(fl) |-> 0]]) :
        fl \in SeqsUpTo(BlobColumnFlags, MaxColumns), n \in 0 .. MaxRows}

\* A blob and what damage makes of it: a cut buffer, a row_length of 0, an
\* offset field one past the end, a missing signature
Damaged(t) ==
    {t, [t EXCEPT !.len = 0, !.is_utf = FALSE], [t EXCEPT !.len = 3, !.is_utf = FALSE],
     [t EXCEPT !.len = 20], [t EXCEPT !.len = 28],
     [t EXCEPT !.len = t.len - 1],
     [t EXCEPT !.row_length = 0],
     [t EXCEPT !.rows_offset = t.len - 7],
     [t EXCEPT !.strings_offset = t.len - 7],
     [t EXCEPT !.data_offset = t.len - 7],
     [t EXCEPT !.is_utf = FALSE]}

BlobsRead == UNION {Damaged(t) : t \in PlainTables}

\* A call of read_utf on the blob
ReadUtfCall ==
    /\ upc = "call"
    /\ upc' = "returned"
    /\ utf_parsed' = ReadUtf(utf_blob)
    /\ UNCHANGED utf_blob

PacketIdle ==
    /\ raw_packet = <<>>
    /\ utf_packet = <<>>
    /\ is_enc = FALSE
    /\ dpc = "idle"
    /\ dret = "none"
    /\ dcount = 0

UtfInit ==
    /\ CpkIdle
    /\ bits_call = NoCall
    /\ LaylaIdle
    /\ PacketIdle
    /\ utf_blob \in BlobsRead
    /\ utf_parsed = <<>>
    /\ upc = "call"

UtfNext == ReadUtfCall /\ UNCHANGED <<laylaVars, cpkVars, extractVars, packetVars, bits_call>>

UtfSpec == UtfInit /\ [][UtfNext]_vars

\* read_utf has returned Ok
Parsed == upc = "returned" /\ utf_parsed.ok

IsPerRow(flags) == StorageFlag(flags) = STORAGE_PERROW

\* C13: in a parsed table a PerRow cell's position is in
\* [rows_offset, rows_offset + num_rows * row_length); any other cell is the
\* absent variant, at the cursor, and consumes nothing.
C13_PositionsInRows ==
    Parsed =>
        \A i \in 1 .. utf_parsed.num_rows : \A j \in 1 .. Len(utf_parsed.columns) :
            LET c == utf_parsed.rows[i][j]
            IN  IF IsPerRow(utf_parsed.columns[j].flags)
                THEN /\ utf_parsed.rows_offset <= c.position
                     /\ c.position < utf_parsed.rows_offset
                                         + utf_parsed.num_rows * utf_parsed.row_length
                ELSE /\ c.value = CellNone
                     /\ c.position = CellPosition(utf_blob, i, j)
                     /\ j < Len(utf_parsed.columns) =>
                            utf_parsed.rows[i][j + 1].position = c.position

\* The blob holds its three offset fields (bytes 8 to 19), and one of them,
\* rebased, is beyond the blob
OffsetFieldViolates ==
    /\ utf_blob.len >= 20
    /\ \/ utf_blob.rows_offset + 8 > utf_blob.len
       \/ utf_blob.strings_offset + 8 > utf_blob.len
       \/ utf_blob.data_offset + 8 > utf_blob.len

\* C14, as the code has it: on Ok the three rebased offsets are <= the blob
\* length; a blob violating this is rejected, with InvalidFormat when it has
\* the signature and the whole 32-byte header, else with InvalidUtfSignature
\* or an I/O error.
C14_OffsetsChecked ==
    (upc = "returned") =>
        /\ utf_parsed.ok =>
               /\ utf_parsed.rows_offset = utf_blob.rows_offset + 8
               /\ utf_parsed.strings_offset = utf_blob.strings_offset + 8
               /\ utf_parsed.data_offset = utf_blob.data_offset + 8
               /\ utf_parsed.rows_offset <= utf_blob.len
               /\ utf_parsed.strings_offset <= utf_blob.len
               /\ utf_parsed.data_offset <= utf_blob.len
        /\ OffsetFieldViolates
               => /\ ~utf_parsed.ok
                  /\ (utf_blob.is_utf /\ utf_blob.len >= 32)
                         => utf_parsed.err = "InvalidFormat"
                  /\ ~utf_blob.is_utf => utf_parsed.err = "InvalidUtfSignature"
                  /\ (utf_blob.is_utf /\ utf_blob.len < 32) => utf_parsed.err = "Io"

C14_Witness ==
    /\ upc = "returned"
    /\ utf_parsed.err = "InvalidFormat"
    /\ utf_blob.data_offset + 8 > utf_blob.len
    /\ utf_blob.rows_offset + 8 <= utf_blob.len

\* C14, as stated: on Ok the three rebased offsets are <= the blob length, and
\* a blob violating this for any of the three is rejected with InvalidFormat.
C14_RejectedAsInvalidFormat ==
    (upc = "returned") =>
        /\ utf_parsed.ok =>
               /\ utf_parsed.rows_offset <= utf_blob.len
               /\ utf_parsed.strings_offset <= utf_blob.len
               /\ utf_parsed.data_offset <= utf_blob.len
        /\ OffsetFieldViolates
               => utf_parsed.err = "InvalidFormat"

\* The flags read_utf is to refuse: a storage mode other than 0x00, 0x10, 0x30,
\* 0x50 or a value type other than 0..8, 0xA, 0xB
RefusedFlags(flags) ==
    \/ (flags \div 16) \notin {0, 1, 3, 5}
    \/ (flags % 16) \notin (0 .. 8) \cup {10, 11}

\* C15: read_utf fails with Parse for every table (whose header and column
\* records it could read) with a column of an unknown storage mode or value
\* type, and never returns Ok for one.
C15_UnknownColumnIsParseError ==
    (upc = "returned" /\ HeaderErrorOfUtf(utf_blob) = ""
        /\ \E j \in 1 .. Len(utf_blob.columns) : RefusedFlags(utf_blob.columns[j].flags))
        => (~utf_parsed.ok /\ utf_parsed.err = "Parse")

\* ========================================================================
\* Claims about extract_file
\* ========================================================================
\* Two strings are equal when letters are compared without their case
UpperCode(c) == IF c >= 97 /\ c <= 122 THEN c - 32 ELSE c

SameIgnoringCase(a, b) ==
    /\ Len(a) = Len(b)
    /\ \A i \in 1 .. Len(a) : UpperCode(a[i]) = UpperCode(b[i])

\* The step is extract_file's selection
ExtractFileStep == xpc = "idle" /\ xpc' # "idle" /\ target' # <<>>

\* C16: extract_file selects every FILE entry whose full path is the target
\* without regard to case, in table order, and no pseudo-entry; with no such
\* entry it returns FileNotFound and reads and writes nothing.
C16_SelectsByPathIgnoringCase ==
    [][ExtractFileStep =>
        LET Wanted(e) == e.file_type = "FILE" /\ SameIgnoringCase(FullPath(e), target')
        IN  IF SelectSeq(file_table, Wanted) = <<>>
            THEN /\ xpc' = "returned"
                 /\ xret' = "FileNotFound"
                 /\ UNCHANGED <<written, created_dirs, laylaVars, cpkVars>>
            ELSE /\ xpc' = "files"
                 /\ xqueue' = SelectSeq(file_table, Wanted)
                 /\ \A k \in 1 .. Len(xqueue') :
                        xqueue'[k].toc_name # "CPK"]_vars

C16_Witness ==
    /\ target = <<68, 47, 65, 46, 66, 73, 78>>
    /\ xpc = "returned"
    /\ xret = "Ok"
    /\ Len(written) = 2
    /\ written[1].path = N_DIR \o <<47>> \o N_A_BIN
    /\ written[2].path = N_DIR \o <<47>> \o N_A_BIN_UPPER

\* ========================================================================
\* Claims about buffers sized from the archive
\* ========================================================================
\* C17: a buffer whose size comes from the archive is allocated only with a
\* size that its source can still fill.
C17_AllocatedWithinSource == allocated.size <= allocated.remaining

\* ========================================================================
\* Claims about read_toc's base offset
\* ========================================================================
\* C19: every entry read from the TOC carries offset = add_offset, where
\* f_toc = min(toc_offset, 0x800) and add_offset is f_toc when content_offset
\* is all ones, content_offset when toc_offset is all ones, and
\* min(content_offset, f_toc) otherwise.
C19_TocEntriesCarryAddOffset ==
    LET f_toc == Min(toc_offset, TOC_FLOOR)
        add_offset == IF content_offset = U64_MAX THEN f_toc
                      ELSE IF toc_offset = U64_MAX THEN content_offset
                      ELSE Min(content_offset, f_toc)
    IN  \A k \in 1 .. Len(file_table) :
            file_table[k].toc_name = "TOC" => file_table[k].offset = add_offset

C19_Witness ==
    /\ cpc = "returned"
    /\ cret = "Ok"
    /\ toc_offset = TOC_HIGH
    /\ content_offset = CONTENT_AT
    /\ \E k \in 1 .. Len(file_table) :
        /\ file_table[k].toc_name = "TOC"
        /\ file_table[k].file_type = "FILE"
        /\ file_table[k].offset = TOC_FLOOR

\* ========================================================================
\* Claims about the match length
\* ========================================================================
\* C20: when a match has been decoded, backreference_length is the length its
\* fields encode: 3, plus the 2, 3, 5 and 8 bit fields up to the first that is
\* not all ones, plus, after four all-ones fields, the 8-bit chunks up to and
\* including the first that is not 255.
C20_LengthWithExtension ==
    (lpc = "copy" /\ copy_i = 0) =>
        \A t \in WellFormedLists :
            input = EncodedBlob(t) =>
                \A k \in 1 .. Len(t) :
                    (t[k].t = "ref" /\ DecodedSize(SubSeq(t, 1, k - 1)) = bytes_output)
                        => backreference_length = t[k].len

\* ========================================================================
\* Extractors side by side on one Cpk object
\* ========================================================================
\* extract_file and extract_all take &self; each call opens the archive file
\* itself (File::open, lines 701 and 712), so each extractor has its own handle.
\* A handle that all extractors share
HandleOf_Shared(e) == 1

\* The handle extractor e opened
HandleOf(e) == e

\* The arguments of the calls
ConcTargets == {N_A_BIN, N_Z, <<68, 47, 65, 46, 66, 73, 78>>}

SetExtractor(e, x) == extractors' = [extractors EXCEPT ![e] = x]

Returned(x, r) == [x EXCEPT !.pc = "returned", !.ret = r]

\* The selection is made and the file is opened, or FileNotFound is returned
Begin(e, call, selected, must_match) ==
    IF must_match /\ selected = <<>>
    THEN /\ SetExtractor(e, Returned([extractors[e] EXCEPT !.call = call],
                                     "FileNotFound"))
         /\ UNCHANGED handles
    ELSE /\ SetExtractor(e, [extractors[e] EXCEPT !.pc = "seek", !.call = call,
                                                  !.queue = selected])
         /\ handles' = [handles EXCEPT ![HandleOf(e)] = 0]

\* extract_file (lines 683-702) by extractor e
ConcExtractFile(e) ==
    /\ cpc = "returned"
    /\ cret = "Ok"
    /\ extractors[e].pc = "idle"
    /\ \E tgt \in ConcTargets :
        Begin(e, [kind |-> "file", target |-> tgt], Matching(file_table, tgt), TRUE)

\* extract_all (lines 712-721) by extractor e
ConcExtractAll(e) ==
    /\ cpc = "returned"
    /\ cret = "Ok"
    /\ extractors[e].pc = "idle"
    /\ Begin(e, [kind |-> "all", target |-> <<>>], SelectSeq(file_table, IsFile), FALSE)

\* The loop's next entry: the size-0 skip, or reader.seek (lines 726-746);
\* with no entry left the call returns Ok
ConcSeek(e) ==
    LET x == extractors[e]
    IN  /\ x.pc = "seek"
        /\ IF x.queue = <<>>
           THEN SetExtractor(e, Returned(x, "Ok")) /\ UNCHANGED handles
           ELSE IF Head(x.queue).file_size = 0
           THEN SetExtractor(e, [x EXCEPT !.queue = Tail(x.queue)]) /\ UNCHANGED handles
           ELSE /\ SetExtractor(e, [x EXCEPT !.pc = "read"])
                /\ handles' = [handles EXCEPT ![HandleOf(e)] = Head(x.queue).file_offset]

\* What extract_single_file does with the bytes it read (lines 760-796): the
\* file it writes, or the error
PayloadOutcome(entry, data) ==
    IF Len(data) >= 8 /\ SubSeq(data, 1, 8) = Magic
    THEN IF CrilaylaPrecheckFails(data) \/ ~decompress_crilayla(data).ok
         THEN [err |-> "Compression", file |-> <<>>]
         ELSE [err |-> "", file |-> [path |-> FullPath(entry),
                                     data |-> decompress_crilayla(data).data]]
    ELSE [err |-> "", file |-> [path |-> FullPath(entry), data |-> data]]

\* read_exact at the handle's cursor, the decompression, std::fs::write
\* (lines 749-796)
ConcRead(e) ==
    LET x == extractors[e]
        entry == Head(x.queue)
        at == handles[HandleOf(e)]
        rd == ReadExact(archive, at, entry.file_size)
        out == PayloadOutcome(entry, rd.data)
    IN  /\ x.pc = "read"
        /\ IF ~rd.ok
           THEN SetExtractor(e, Returned(x, "Io")) /\ UNCHANGED handles
           ELSE /\ handles' = [handles EXCEPT ![HandleOf(e)] = at + entry.file_size]
                /\ IF out.err # ""
                   THEN SetExtractor(e, Returned(x, out.err))
                   ELSE SetExtractor(e, [x EXCEPT !.pc = "seek",
                                                  !.queue = Tail(x.queue),
                                                  !.written = Append(x.written, out.file)])

\* The archives the extractors work on: a TOC of up to MaxTocRows files, with
\* and without a directory, and a file larger than the archive
ConcArchives ==
    {Archive((0 :> Header(U64("TocOffset", TOC_AT)))
                 @@ (TOC_AT :> Section(SIG_TOC, TocTable(<<F_U64, F_U64, F_U64, dir>>, rows))),
             Payloads) :
        dir \in BOOLEAN,
        rows \in SeqsUpTo(TocRowSet \cup {<<N_Z, ARCHIVE_SIZE, 4, 0>>}, MaxTocRows)}

ConcInit == InitOn(ConcArchives)

ConcNext ==
    \/ ReadCpkHeader /\ UNCHANGED <<laylaVars, extractCtl, concVars, pureVars>>
    \/ ReadTocSection /\ UNCHANGED <<laylaVars, extractCtl, concVars, pureVars>>
    \/ ReadEtocSection /\ UNCHANGED <<laylaVars, extractCtl, concVars, pureVars>>
    \/ ReadItocSection /\ UNCHANGED <<laylaVars, extractCtl, concVars, pureVars>>
    \/ ReadGtocSection /\ UNCHANGED <<laylaVars, extractCtl, concVars, pureVars>>
    \/ \E e \in Extractors :
        ConcExtractFile(e) /\ UNCHANGED <<laylaVars, cpkVars, extractCtl, allocated, pureVars>>
    \/ \E e \in Extractors :
        ConcExtractAll(e) /\ UNCHANGED <<laylaVars, cpkVars, extractCtl, allocated, pureVars>>
    \/ \E e \in Extractors :
        ConcSeek(e) /\ UNCHANGED <<laylaVars, cpkVars, extractCtl, allocated, pureVars>>
    \/ \E e \in Extractors :
        ConcRead(e) /\ UNCHANGED <<laylaVars, cpkVars, extractCtl, allocated, pureVars>>

ConcSpec == ConcInit /\ [][ConcNext]_vars

\* The call run alone: the entries in order, each read at its own file_offset
RECURSIVE Alone(_, _)
Alone(queue, done) ==
    IF queue = <<>> THEN [ret |-> "Ok", written |-> done]
    ELSE LET entry == Head(queue)
             rd == ReadExact(archive, entry.file_offset, entry.file_size)
             out == PayloadOutcome(entry, rd.data)
         IN  IF entry.file_size = 0 THEN Alone(Tail(queue), done)
             ELSE IF ~rd.ok THEN [ret |-> "Io", written |-> done]
             ELSE IF out.err # "" THEN [ret |-> out.err, written |-> done]
             ELSE Alone(Tail(queue), Append(done, out.file))

AloneCall(call) ==
    IF call.kind = "all" THEN Alone(SelectSeq(file_table, IsFile), <<>>)
    ELSE IF Matching(file_table, call.target) = <<>>
    THEN [ret |-> "FileNotFound", written |-> <<>>]
    ELSE Alone(Matching(file_table, call.target), <<>>)

\* Extractor e has returned what its call returns alone, with the same files
AsAlone(e) ==
    extractors[e].pc = "returned" =>
        /\ extractors[e].ret = AloneCall(extractors[e].call).ret
        /\ extractors[e].written = AloneCall(extractors[e].call).written

\* C18: once read_cpk has returned, no step of any extractor changes
\* file_table, cpk_data or the stored offsets, and in every interleaving each
\* extractor that has returned has the return value and the files of its call
\* run alone.
C18_ExtractorsIndependent ==
    /\ [](\A e \in Extractors : AsAlone(e))
    /\ [][cpc = "returned" =>
            UNCHANGED <<file_table, cpk_data, toc_offset, etoc_offset, itoc_offset,
                        gtoc_offset, content_offset>>]_vars

\* Both extractors are between their seek and their read, on different
\* entries, and the first has already written a file
C18_Witness ==
    /\ extractors[1].pc = "read"
    /\ extractors[2].pc = "read"
    /\ handles[1] # handles[2]
    /\ extractors[1].written # <<>>

\* ========================================================================
\* get_next_bits on its own
\* ========================================================================
MaxBitBytes == 3

\* The bit_count arguments decompress_crilayla passes
BitCounts == {1, 2, 3, 5, 8, 13}

StreamBytes == {0, 1, 165, 255}

BitStreams == UNION {[1 .. n -> StreamBytes] : n \in 0 .. MaxBitBytes}

\* The reader as decompress_crilayla sets it up (lines 65-78), at the last
\* byte of the stream
BitsInit ==
    /\ CpkIdle
    /\ PacketIdle
    /\ TableIdle
    /\ bits_call = NoCall
    /\ input \in BitStreams
    /\ input_offset = Len(input) - 1
    /\ bit_pool = 0
    /\ bits_left = 0
    /\ lpc = "idle"
    /\ lret = "none"
    /\ result = <<>>
    /\ bytes_output = 0
    /\ backreference_offset = 0
    /\ backreference_length = 0
    /\ copy_i = 0

\* One call of get_next_bits (lines 201-250); an Err ends the use of the reader
GetNextBits ==
    /\ bits_call.ok
    /\ \E n \in BitCounts :
        LET g == get_next_bits(input, input_offset, bit_pool, bits_left, n)
        IN  /\ bits_call' = [n |-> n, ok |-> g.ok, bits |-> g.bits]
            /\ input_offset' = g.off
            /\ bit_pool' = g.pool
            /\ bits_left' = g.left
    /\ UNCHANGED <<input, lpc, lret, result, bytes_output, backreference_offset,
                   backreference_length, copy_i>>

BitsNext == GetNextBits /\ UNCHANGED <<cpkVars, extractVars, packetVars, tableVars>>

BitsSpec == BitsInit /\ [][BitsNext]_vars

\* The stream as bits: the bytes from the last to the first, each from its
\* most significant bit down
RECURSIVE BackwardBits(_)
BackwardBits(bytes) ==
    IF bytes = <<>> THEN <<>>
    ELSE Bits(bytes[Len(bytes)], 8) \o BackwardBits(SubSeq(bytes, 1, Len(bytes) - 1))

\* The bits of the stream already handed out
Consumed == 8 * (Len(input) - 1 - input_offset) - bits_left

\* C21: a successful get_next_bits(n) returns the next n bits of the backward
\* stream as a value below 2^n, consumes exactly n bits, leaves
\* 0 <= bits_left <= 8, and loads a new byte only when the pool is empty: none
\* when the pool holds the n bits, otherwise one byte for every 8 bits (or
\* part) that the pool lacks.
C21_NextBitsOfBackwardStream ==
    [][bits_call'.ok =>
        LET n == bits_call'.n
            lacking == IF n > bits_left THEN n - bits_left ELSE 0
        IN  /\ bits_call'.bits =
                   BitsValue(SubSeq(BackwardBits(input), Consumed + 1, Consumed + n))
            /\ bits_call'.bits < Pow2(n)
            /\ Consumed' = Consumed + n
            /\ bits_left' >= 0 /\ bits_left' <= 8
            /\ input_offset - input_offset' = (lacking + 7) \div 8]_vars

\* A 13-bit read that started inside the last byte and ended with the byte
\* before it: after 111, the bits 11111 10100101
C21_Witness ==
    /\ bits_call.ok
    /\ bits_call.n = 13
    /\ bits_call.bits = 8101
    /\ Consumed = 16
    /\ bits_left = 0
    /\ input = <<255, 165, 255>>

\* ========================================================================
\* Claims about the order of file_table
\* ========================================================================
\* The indices of the pseudo-entries with this name and type
PseudoAt(name, type) ==
    {k \in 1 .. Len(file_table) :
        file_table[k].file_name = name /\ file_table[k].file_type = type}

\* Every index of the first set is below every index of the second
Before(first, second) == \A i \in first, j \in second : i < j

FromTable(toc_name) ==
    {k \in 1 .. Len(file_table) : file_table[k].toc_name = toc_name}

\* read_cpk is past the header table
PastHeader == cpc \in {"toc", "etoc", "itoc", "gtoc"} \/ (cpc = "returned" /\ cret = "Ok")

\* C22: CPK_HDR is the first entry and CONTENT_OFFSET, when content_offset is
\* not 0, the second; the *_HDR entries stand in the order TOC, ETOC, ITOC,
\* GTOC; TOC_HDR is before every TOC file entry and ITOC_HDR before every ITOC
\* file entry; when read_cpk has returned Ok a sub-table's *_HDR is there
\* exactly when its stored offset is not all ones.
C22_SectionsInOrder ==
    /\ file_table # <<>> => PseudoAt(S_CPK_HDR, "CPK") = {1}
    /\ PastHeader =>
          PseudoAt(S_CONTENT_OFFSET, "CONTENT") = IF content_offset # 0 THEN {2} ELSE {}
    /\ Before(PseudoAt(S_TOC_HDR, "HDR"), PseudoAt(S_ETOC_HDR, "HDR"))
    /\ Before(PseudoAt(S_TOC_HDR, "HDR") \cup PseudoAt(S_ETOC_HDR, "HDR"),
              PseudoAt(S_ITOC_HDR, "HDR"))
    /\ Before(PseudoAt(S_TOC_HDR, "HDR") \cup PseudoAt(S_ETOC_HDR, "HDR")
                  \cup PseudoAt(S_ITOC_HDR, "HDR"),
              PseudoAt(S_GTOC_HDR, "HDR"))
    /\ FromTable("TOC") # {} =>
          /\ PseudoAt(S_TOC_HDR, "HDR") # {}
          /\ Before(PseudoAt(S_TOC_HDR, "HDR"), FromTable("TOC"))
    /\ FromTable("ITOC") # {} =>
          /\ PseudoAt(S_ITOC_HDR, "HDR") # {}
          /\ Before(PseudoAt(S_ITOC_HDR, "HDR"), FromTable("ITOC"))
          /\ Before(FromTable("TOC"), PseudoAt(S_ITOC_HDR, "HDR"))
    /\ (cpc = "returned" /\ cret = "Ok") =>
          /\ (PseudoAt(S_TOC_HDR, "HDR") # {}) = (toc_offset # U64_MAX)
          /\ (PseudoAt(S_ETOC_HDR, "HDR") # {}) = (etoc_offset # U64_MAX)
          /\ (PseudoAt(S_ITOC_HDR, "HDR") # {}) = (itoc_offset # U64_MAX)
          /\ (PseudoAt(S_GTOC_HDR, "HDR") # {}) = (gtoc_offset # U64_MAX)

\* read_cpk returned Ok with every pseudo-entry and two TOC files
C22_Witness ==
    /\ cpc = "returned"
    /\ cret = "Ok"
    /\ PseudoAt(S_CONTENT_OFFSET, "CONTENT") = {2}
    /\ PseudoAt(S_TOC_HDR, "HDR") = {3}
    /\ FromTable("TOC") = {4, 5}
    /\ PseudoAt(S_ETOC_HDR, "HDR") = {6}
    /\ PseudoAt(S_GTOC_HDR, "HDR") = {7}

\* ========================================================================
\* Claims about read_etoc
\* ========================================================================
\* read_etoc has read its table: read_cpk is at a later sub-table, or has
\* returned Ok, or has returned from a later sub-table
EtocAttached ==
    /\ etoc_offset # U64_MAX
    /\ \/ cpc \in {"itoc", "gtoc"}
       \/ cpc = "returned" /\ cret = "Ok"
       \/ cpc = "returned" /\ PseudoAt(S_ITOC_HDR, "HDR") \cup PseudoAt(S_GTOC_HDR, "HDR") # {}

\* The rows of the archive's ETOC; each holds its LocalDir
EtocRows == archive.sections[etoc_offset].table.rows

\* The place of entry k among the entries read from the TOC
TocRank(k) == Cardinality({j \in FromTable("TOC") : j <= k})

\* C23: after read_etoc the i-th entry read from the TOC has the LocalDir of
\* ETOC row i when there is such a row and no local_dir otherwise, whatever
\* the two row counts; every other entry, and every entry while read_etoc has
\* not run, has no local_dir.
C23_LocalDirByRow ==
    \A k \in 1 .. Len(file_table) :
        IF EtocAttached /\ file_table[k].toc_name = "TOC"
               /\ TocRank(k) <= Len(EtocRows)
        THEN file_table[k].local_dir = Some(EtocRows[TocRank(k)][1])
        ELSE file_table[k].local_dir = NoneStr

\* Two TOC files and one ETOC row: the first file has the row's LocalDir
C23_Witness ==
    /\ cpc = "returned"
    /\ cret = "Ok"
    /\ etoc_offset # U64_MAX
    /\ Len(EtocRows) = 1
    /\ Cardinality(FromTable("TOC")) = 2
    /\ \E k \in FromTable("TOC") : file_table[k].local_dir = Some(N_DIR)
    /\ \E k \in FromTable("TOC") : file_table[k].local_dir = NoneStr

\* ========================================================================
\* Claims about the pseudo-entries' size and encrypted flag
\* ========================================================================
\* C24: a step of read_cpk changes the file_size or the encrypted flag of no
\* entry already in file_table other than an entry of file_type HDR; the
\* entries of file_type FILE keep both, whatever their names.
C24_OnlyHdrUpdated ==
    [][\A k \in 1 .. Len(file_table) :
          (\/ Len(file_table') < k
           \/ file_table'[k].file_size # file_table[k].file_size
           \/ file_table'[k].encrypted # file_table[k].encrypted)
              => file_table[k].file_type = "HDR"]_vars

\* ========================================================================
\* read_cpk called again on the same Cpk
\* ========================================================================
\* read_cpk as one call (lines 91-246) on a Cpk whose file_table is table
read_cpk(a, table, checks) ==
    LET o == OpenSection(a, 0, SIG_CPK, "InvalidSignature")
    IN  IF ~o.ok THEN Outcome(o.err, table)
        ELSE
            LET sec == a.sections[0]
                table1 == Append(table, CpkHdrEntry(sec))
                utf == ReadUtf(sec.table)
            IN  IF ~utf.ok THEN Outcome(utf.err, table1)
                ELSE
                    LET content == HeaderOffset(utf, "ContentOffset", 0)
                        toc == HeaderOffset(utf, "TocOffset", U64_MAX)
                        etoc == HeaderOffset(utf, "EtocOffset", U64_MAX)
                        itoc == HeaderOffset(utf, "ItocOffset", U64_MAX)
                        gtoc == HeaderOffset(utf, "GtocOffset", U64_MAX)
                        table2 == IF content # 0
                                  THEN Append(table1, ContentEntry(content))
                                  ELSE table1
                        r_toc == IF toc = U64_MAX THEN Outcome("", table2)
                                 ELSE read_toc(a, Append(table2, HdrEntry(S_TOC_HDR, toc)),
                                               toc, content, checks)
                        r_etoc == IF etoc = U64_MAX THEN Outcome("", r_toc.table)
                                  ELSE read_etoc(a, Append(r_toc.table,
                                                           HdrEntry(S_ETOC_HDR, etoc)),
                                                 etoc)
                        r_itoc == IF itoc = U64_MAX THEN Outcome("", r_etoc.table)
                                  ELSE read_itoc(a, Append(r_etoc.table,
                                                           HdrEntry(S_ITOC_HDR, itoc)),
                                                 itoc, content, HeaderAlign(utf), checks)
                        r_gtoc == IF gtoc = U64_MAX THEN Outcome("", r_itoc.table)
                                  ELSE read_gtoc(a, Append(r_itoc.table,
                                                           HdrEntry(S_GTOC_HDR, gtoc)),
                                                 gtoc)
                    IN  IF r_toc.err # "" THEN r_toc
                        ELSE IF r_etoc.err # "" THEN r_etoc
                        ELSE IF r_itoc.err # "" THEN r_itoc
                        ELSE r_gtoc

\* The calls of read_cpk made on the Cpk so far
MaxCalls == 2

Calls == Cardinality({k \in 1 .. Len(file_table) : file_table[k].file_type = "CPK"})

\* The caller calls read_cpk again after an Ok: the fields stay as they are
ReadCpkAgain ==
    /\ cpc = "returned"
    /\ cret = "Ok"
    /\ Calls < MaxCalls
    /\ cpc' = "new"
    /\ cret' = "none"
    /\ UNCHANGED <<archive, overflow_checks, file_table, cpk_data, toc_offset,
                   etoc_offset, itoc_offset, gtoc_offset, content_offset, align,
                   allocated>>

AgainInit == InitOn(Archives)

AgainNext ==
    \/ ReadCpkHeader /\ UNCHANGED <<laylaVars, extractCtl, concVars, pureVars>>
    \/ ReadTocSection /\ UNCHANGED <<laylaVars, extractCtl, concVars, pureVars>>
    \/ ReadEtocSection /\ UNCHANGED <<laylaVars, extractCtl, concVars, pureVars>>
    \/ ReadItocSection /\ UNCHANGED <<laylaVars, extractCtl, concVars, pureVars>>
    \/ ReadGtocSection /\ UNCHANGED <<laylaVars, extractCtl, concVars, pureVars>>
    \/ ReadCpkAgain /\ UNCHANGED <<laylaVars, extractCtl, concVars, pureVars>>

AgainSpec == AgainInit /\ [][AgainNext]_vars

\* The table a single read_cpk on a fresh Cpk produces for the archive
FreshTable == read_cpk(archive, <<>>, overflow_checks).table

\* C25: whenever read_cpk has returned Ok, after any number of calls,
\* file_table is the table of a single call on a fresh Cpk.
C25_SameAsFreshCall ==
    (cpc = "returned" /\ cret = "Ok") => file_table = FreshTable

\* ========================================================================
\* Claims about a read_cpk that returns an error
\* ========================================================================
\* read_cpk has returned an Err (a panic is not a return)
ReturnedErr == cpc = "returned" /\ cret \notin {"none", "Ok", "panic"}

\* C26: when read_cpk returns an error on a fresh Cpk, file_table, cpk_data
\* and the offsets are what Cpk::new made them.
C26_ErrorLeavesCpkAsNew ==
    ReturnedErr =>
        /\ file_table = <<>>
        /\ cpk_data = <<>>
        /\ toc_offset = U64_MAX
        /\ etoc_offset = U64_MAX
        /\ itoc_offset = U64_MAX
        /\ gtoc_offset = U64_MAX
        /\ content_offset = 0

\* ========================================================================
\* Claims about the offsets read_itoc computes
\* ========================================================================
\* The indices of the entries read_itoc pushed
FromItoc(table) == {k \in 1 .. Len(table) : table[k].toc_name = "ITOC"}

\* C27: the read_itoc step never panics (no division by zero, no overflow of
\* base_offset), and the offsets it gives never decrease from one id to the
\* next (base_offset did not wrap).
C27_ItocOffsetsComplete ==
    [][cpc = "itoc" =>
          /\ cret' # "panic"
          /\ \A i, j \in FromItoc(file_table') :
                 i < j => file_table'[i].file_offset <= file_table'[j].file_offset]_vars

\* ========================================================================
\* Claims about the decoding loop of decompress_crilayla
\* ========================================================================
\* decompress_crilayla has a next step: every step is total on its position
LaylaRunning == lpc \in {"entry", "loop", "copy"}

\* decompress_crilayla is sequential code, it keeps taking its next step: weak
\* fairness of LaylaNext, stated with LaylaRunning for the enabledness
LaylaFair == []<>(~LaylaRunning) \/ []<><<LaylaNext>>_vars

LaylaLiveSpec == LaylaSpec /\ LaylaFair

\* C28: every pass through the decoding loop that stays in the loop has put
\* out at least one byte (a literal puts out one; a back reference has copied
\* at least one byte when its copy ends), the input index never increases,
\* bytes_output never exceeds uncompressed_size, and the call returns.
C28_LoopTerminates ==
    /\ [][/\ (lpc = "loop" /\ lpc' = "loop") => bytes_output' = bytes_output + 1
          /\ (lpc = "loop" /\ lpc' = "copy") =>
                 copy_i' = 0 /\ bytes_output' = bytes_output
          /\ (lpc = "copy" /\ lpc' = "copy") =>
                 copy_i' = copy_i + 1 /\ bytes_output' = bytes_output + 1
          /\ (lpc = "copy" /\ lpc' = "loop") =>
                 copy_i >= 1 /\ bytes_output' = bytes_output
          /\ lpc \in {"loop", "copy"} =>
                 /\ input_offset' <= input_offset
                 /\ bytes_output' <= uncompressed_size_of(input)]_vars
    /\ <>(lpc = "returned")

\* A decoding that ran literals and a back reference to the declared size
C28_Witness ==
    /\ lpc = "returned"
    /\ lret = "Ok"
    /\ copy_i >= 3
    /\ bytes_output = uncompressed_size_of(input)
    /\ bytes_output > copy_i

\* The index output_end - bytes_output of the byte a pass writes
WriteIndex == PLAIN_HEADER + uncompressed_size_of(input) - 1 - bytes_output

\* What a pass through the loop or the copy does to bytes_output and result
WritePass ==
    /\ 0 <= bytes_output'
    /\ bytes_output' <= uncompressed_size_of(input)
    /\ Len(result') = PLAIN_HEADER + uncompressed_size_of(input)
    /\ (bytes_output' # bytes_output) =>
           (/\ bytes_output' = bytes_output + 1
            /\ PLAIN_HEADER <= WriteIndex
            /\ WriteIndex < PLAIN_HEADER + uncompressed_size_of(input)
            /\ \A k \in 1 .. Len(result) :
                   (k # WriteIndex + 1) => (result'[k] = result[k]))
    /\ (bytes_output' = bytes_output) => (result' = result)
    /\ (lpc = "copy" /\ bytes_output >= uncompressed_size_of(input)) =>
           (lpc' = "loop" /\ result' = result)

\* C29: in the decoding loop 0 <= bytes_output <= uncompressed_size; a pass
\* that puts out a byte changes result at output_end - bytes_output only, an
\* index in [0x100, 0x100 + uncompressed_size), and keeps the buffer's length;
\* a pass that puts out no byte leaves result alone; a copy pass that finds
\* bytes_output at uncompressed_size writes nothing and ends the copy.
C29_WritesInDecodedRegion == [][(lpc \in {"loop", "copy"}) => WritePass]_vars

\* A copy that stopped short of its length because the output was full
C29_Witness ==
    /\ lpc = "returned"
    /\ lret = "Ok"
    /\ bytes_output = uncompressed_size_of(input)
    /\ 0 < copy_i
    /\ copy_i < backreference_length

\* The distance from the write index to the source index of a copy
Distance == backreference_offset - WriteIndex

\* What a back reference does with its source index: on entering the copy and
\* on every pass that copies a byte
SourcePass ==
    /\ (lpc = "loop" /\ lpc' = "copy") =>
           (/\ Distance' >= MIN_MATCH
            /\ Distance' < 2 ^ OFFSET_BITS + MIN_MATCH)
    /\ (lpc = "copy" /\ lpc' = "copy") =>
           (/\ Distance' = Distance
            /\ Distance >= MIN_MATCH
            /\ backreference_offset >= PLAIN_HEADER + MIN_MATCH
            /\ (backreference_offset < Len(result)) =>
                   (/\ backreference_offset > WriteIndex
                    /\ backreference_offset <= WriteIndex + bytes_output
                    /\ result'[WriteIndex + 1] = result[backreference_offset + 1])
            /\ (backreference_offset >= Len(result)) => (result'[WriteIndex + 1] = 0))

\* C30: the distance from the write index to the source index of a copy is
\* offset_bits + 3 when the copy starts and stays the same on every pass; a
\* source index inside the buffer is above the write index and among the
\* bytes_output positions already produced, and its byte is the one written;
\* the source index is never in the 0x100-byte plaintext header.
C30_SourceAlreadyProduced == [][SourcePass]_vars

\* A copy at distance 3 that reads a byte its own earlier passes wrote
C30_Witness ==
    /\ lpc = "copy"
    /\ copy_i > Distance
    /\ Distance = MIN_MATCH
    /\ backreference_offset < Len(result)
    /\ result[WriteIndex + 2] # 0

====
